---- MODULE Spec2Model ----
(***************************************************************************)
(* A model of the bluesky-feeds feed generator.                            *)
(*                                                                         *)
(*   Ingestion : jetstream::connect_and_run, the consumer callback of      *)
(*               main, helloworld::process_event and                       *)
(*               fakebluesky::process_event, with the upstream firehose    *)
(*               as environment.                                           *)
(*   Read path : get_feed_skeleton of helloworld, fakebluesky and          *)
(*               privatelist.                                              *)
(***************************************************************************)
EXTENDS Integers, Sequences, FiniteSets, Bags, TLC

(***************************************************************************)
(* Bounds of the model.                                                    *)
(***************************************************************************)
\* number of events the upstream firehose produces
MaxEvents == 2
\* number of environment faults (crash, closed channel, connect failure,
\* zombie connection, failed DB statement) in one behaviour
MaxFaults == 2
\* largest wall-clock reading (microseconds) of chrono::Utc::now()
MaxNow == 3
\* distance in time_us between two consecutive upstream events
TickUs == 500000

(***************************************************************************)
(* Option<T>: None is the empty sequence, Some(v) the one-element sequence.*)
(***************************************************************************)
None == <<>>

Some(v) == <<v>>

IsSome(o) == o # None

Unwrap(o) == o[1]

\* a mutant of OrElse: the second option, whatever the first
OrSecond(a, b) == b

\* Option::or
OrElse(a, b) == IF IsSome(a) THEN a ELSE b

\* Option::unwrap_or
UnwrapOr(o, d) == IF IsSome(o) THEN o[1] ELSE d

Min(a, b) == IF a <= b THEN a ELSE b

Max(a, b) == IF a >= b THEN a ELSE b

(***************************************************************************)
(* Upstream events.  The i-th event of the firehose has time_us = i*TickUs,*)
(* record key i and content hash i; its shape is one of EventShapes.       *)
(***************************************************************************)
POST_COLLECTION == "app.bsky.feed.post"

AUTHOR_DID == "did:plc:author"

\* what an analysis task of one image can end with
AnalysisOutcomes == {"not_blue", "blue", "error", "join_error"}

EventShapes ==
  { [kind |-> "identity", op |-> "none",   text |-> "",            images |-> 0],
    [kind |-> "commit",   op |-> "delete", text |-> "",            images |-> 0],
    [kind |-> "commit",   op |-> "create", text |-> "hello world", images |-> 0],
    [kind |-> "commit",   op |-> "create", text |-> "bluesky",     images |-> 0],
    [kind |-> "commit",   op |-> "create", text |-> "bluesky",     images |-> 2] }

TimeUs(i) == i * TickUs

\* format!("at://{}/{}/{}", did, collection, rkey)
PostUri(did, collection, rkey) == <<"at://", did, collection, rkey>>

VARIABLES
  upstream,        \* the firehose log: a sequence of event shapes
  now,             \* last wall-clock reading, microseconds
  faults,          \* environment faults so far
  pc,              \* control location of the process / consumer task
  sleepSecs,       \* duration of the sleep the consumer is in (0: none)
  lastFailure,     \* what the consumer logged last: why it left the loop body
  initial_cursor,  \* main: initial_cursor
  cursor_us,       \* connect_and_run: cursor_us
  current_cursor,  \* main: current_cursor (Arc<Mutex<Option<i64>>>)
  subCursor,       \* cursor the live subscription was opened with
  subPos,          \* index in upstream of the next event the receiver yields
  subAlive,        \* the live subscription still delivers
  inflight,        \* index of the event the callback is handling (0: none)
  new_cursor,      \* callback: fb_cursor.or(hw_cursor)
  cursorRow,       \* the jetstream_cursor table: None, or Some(cursor_us)
  hwIndex,         \* table helloworld_posts: set of rows
  fbIndex,         \* table fake_bluesky_posts: set of rows
  analyses,        \* the calls of has_blue_sky_images so far, one record per
                   \* post: its semaphore, its tasks, how far the call is
  handlers,        \* the request handlers running concurrently on the
                   \* service token, and how far each has come
  auth_guard,      \* the RwLock around service_auth: who holds it, and
                   \* history: whose re-authentication wrote each field
  plMembers,       \* table private_list_members
  plCache,         \* table private_list_post_cache: set of rows
  resp,            \* the last getFeedSkeleton request and its response
  wall,            \* chrono::Utc::now() of the request handlers, in seconds
  cache,           \* table cache of oneyearago.db: set of rows
  service_auth,    \* AppState.service_auth: [token, did]
  auth_handle,     \* AppState.auth_handle (APP_HANDLE, may be empty)
  rq,              \* the request served with the service token, and how far
                   \* its handler has come
  cleaners,        \* the spawned cleanup tasks and how far each has come
  done,            \* history: the requests answered, with their answers
  getLog,          \* history: the last get_raw, what it saw and returned
  passed,          \* history: events passed to the callback at least once
  passedRun,       \* history: events passed to the callback in this run,
                   \* kept while the run has opened one subscription only
  passedTwice,     \* history: those of passedRun passed more than once
  owed,            \* history: commit events upstream held at-or-after the
                   \* cursor in force at some (re)connection
  subsOpened,      \* history: subscriptions opened in this run: none, one, many
  dbFault,         \* history: a cursor write or the cursor load has failed
  firstInsert,     \* history: per index and event, the row of the first
                   \* INSERT statement executed for the event's URI
  reinserted,      \* history: <<index, event>> whose INSERT was executed again
  storedWith       \* history: per event, the outcomes of the image analyses
                   \* that preceded the first INSERT into fake_bluesky_posts

envVars == <<upstream, now, faults>>

procVars == <<pc, sleepSecs, lastFailure, initial_cursor, cursor_us,
              current_cursor>>

subVars == <<subCursor, subPos, subAlive>>

cbVars == <<inflight, new_cursor>>

dbVars == <<cursorRow, hwIndex, fbIndex>>

svcVars == <<wall, cache, service_auth, auth_handle, rq, cleaners, done,
             getLog>>

readVars == <<plMembers, plCache, resp, analyses, handlers, auth_guard,
              svcVars>>

histVars == <<passed, passedRun, passedTwice, owed, subsOpened, dbFault,
              firstInsert, reinserted, storedWith>>

vars == <<envVars, procVars, subVars, cbVars, dbVars, readVars, histVars>>

\* the RwLock of service_auth held by nobody; token_by and did_by name the
\* re-authentication each field of the holder came from (0: the login at
\* startup), last the latest task that took the write guard
Unlocked == [writer |-> 0, readers |-> {}, token_by |-> 0, did_by |-> 0,
             last |-> 0]

(***************************************************************************)
(* Program constants.                                                      *)
(***************************************************************************)
\* fakebluesky: indexed_at = time_us / 1_000_000
MICROS_PER_SEC == 1000000
\* connect_and_run: sleep after a connector or connect failure
RETRY_SLEEP_SECS == 5
\* connect_and_run: sleep before a reconnect
RECONNECT_SLEEP_SECS == 2

(***************************************************************************)
(* Tables with PRIMARY KEY uri.                                            *)
(***************************************************************************)
\* INSERT OR REPLACE: shown for comparison, used by the privatelist cache
InsertOrReplace(table, row) ==
  {r \in table : r.uri # row.uri} \cup {row}

\* INSERT OR IGNORE INTO ... (uri, cid, indexed_at)
InsertOrIgnore(table, row) ==
  IF \E r \in table : r.uri = row.uri THEN table ELSE table \cup {row}

(***************************************************************************)
(* helloworld::process_event                                               *)
(***************************************************************************)
\* regex (?i)hello[,\s]*world on the post text
matches_hello_world(text) == text = "hello world"

\* the row helloworld stores for event i when the clock reads t, or None
HelloworldRow(i, t) ==
  LET ev == upstream[i] IN
  IF ev.kind = "commit" /\ ev.op = "create" /\ matches_hello_world(ev.text)
  THEN Some([uri |-> PostUri(AUTHOR_DID, POST_COLLECTION, i),
             cid |-> i, indexed_at |-> t])
  ELSE None

\* helloworld::process_event returns (); it contributes no cursor
HwCursor == None

(***************************************************************************)
(* fakebluesky::process_event                                              *)
(***************************************************************************)
\* regex (?i)^bluesky[\p{P}\p{S}]*$ on the text without whitespace
matches_bluesky(text) == text = "bluesky"

\* a mutant of has_blue_sky_images: analysis errors count as "no blue sky"
RECURSIVE has_blue_sky_images_lenient(_)
has_blue_sky_images_lenient(outcomes) ==
  IF outcomes = <<>> THEN FALSE
  ELSE IF Head(outcomes) = "blue" THEN TRUE
  ELSE has_blue_sky_images_lenient(Tail(outcomes))

\* has_blue_sky_images: the join loop over the analysis tasks, in order
RECURSIVE has_blue_sky_images(_)
has_blue_sky_images(outcomes) ==
  IF outcomes = <<>> THEN FALSE
  ELSE IF Head(outcomes) = "not_blue"
       THEN has_blue_sky_images(Tail(outcomes))
       ELSE TRUE

\* a mutant of FbCursor: the cursor is the time of the event that follows
FbCursorAhead(i) ==
  LET ev == upstream[i] IN
  IF ev.kind = "commit" /\ ev.op = "create" THEN Some(TimeUs(i + 1)) ELSE None

\* a mutant of FbCursor: a cursor only for the posts whose text matches
FbCursorMatching(i) ==
  LET ev == upstream[i] IN
  IF ev.kind = "commit" /\ ev.op = "create" /\ matches_bluesky(ev.text)
  THEN Some(TimeUs(i)) ELSE None

\* the value process_event returns: Some(time_us) for a Create event
FbCursor(i) ==
  LET ev == upstream[i] IN
  IF ev.kind = "commit" /\ ev.op = "create" THEN Some(TimeUs(i)) ELSE None

\* the event reaches the image analysis: a Create of a post whose text
\* matches and which embeds at least one image
FbAnalyses(i) ==
  LET ev == upstream[i] IN
  /\ ev.kind = "commit" /\ ev.op = "create"
  /\ matches_bluesky(ev.text)
  /\ ev.images > 0

\* the row fakebluesky stores for a post that passed the analysis
FbRow(i) ==
  [uri |-> PostUri(AUTHOR_DID, POST_COLLECTION, i),
   cid |-> i, indexed_at |-> TimeUs(i) \div MICROS_PER_SEC]


(***************************************************************************)
(* The upstream firehose (environment).                                    *)
(***************************************************************************)
\* index of the first event a subscription opened with cursor c yields:
\* the first event at-or-after c, or the live tail when there is no cursor
SubStart(c) ==
  IF c = None THEN Len(upstream) + 1
  ELSE LET later == {i \in 1..Len(upstream) : TimeUs(i) >= Unwrap(c)} IN
       IF later = {} THEN Len(upstream) + 1
       ELSE CHOOSE i \in later : \A j \in later : i <= j

\* the commit events upstream holds at-or-after cursor c
HeldAtOrAfter(c) ==
  IF c = None THEN {}
  ELSE {i \in 1..Len(upstream) :
          upstream[i].kind = "commit" /\ TimeUs(i) >= Unwrap(c)}

UpstreamAppend(shape) ==
  /\ Len(upstream) < MaxEvents
  /\ upstream' = Append(upstream, shape)
  /\ UNCHANGED <<now, faults, procVars, subVars, cbVars, dbVars, readVars,
                 histVars>>

\* the live connection goes silent (half-open TCP): nothing more arrives
Zombie ==
  /\ pc = "recv" /\ subAlive
  /\ faults < MaxFaults
  /\ faults' = faults + 1
  /\ subAlive' = FALSE
  /\ UNCHANGED <<upstream, now, procVars, subCursor, subPos, cbVars, dbVars,
                 readVars, histVars>>

(***************************************************************************)
(* Process life cycle: main.                                               *)
(***************************************************************************)
\* a mutant of LoadedCursor: the saved cursor is not used
LoadedCursorIgnored(readOk) == None

\* SELECT cursor_us FROM jetstream_cursor WHERE id = 1 ... .unwrap_or(None)
LoadedCursor(readOk) == IF readOk THEN cursorRow ELSE None

\* main: load the saved cursor, then connect_and_run(callback,
\* initial_cursor) starts with cursor_us = initial_cursor
MainLoadCursor(readOk) ==
  /\ pc = "boot"
  /\ readOk \/ faults < MaxFaults
  /\ faults' = IF readOk THEN faults ELSE faults + 1
  /\ dbFault' = (dbFault \/ ~readOk)
  /\ initial_cursor' = LoadedCursor(readOk)
  /\ current_cursor' = initial_cursor'
  /\ cursor_us' = initial_cursor'
  /\ pc' = "loop"
  /\ UNCHANGED <<upstream, now, sleepSecs, lastFailure, subVars, cbVars,
                 dbVars, readVars, passed, passedRun, passedTwice, owed,
                 subsOpened, firstInsert, reinserted, storedWith>>

\* the process dies: everything but the databases is lost
Crash ==
  /\ pc \notin {"down", "off"}
  /\ faults < MaxFaults
  /\ faults' = faults + 1
  /\ pc' = "down"
  /\ sleepSecs' = 0 /\ lastFailure' = "none"
  /\ initial_cursor' = None /\ cursor_us' = None /\ current_cursor' = None
  /\ subCursor' = None /\ subPos' = 0 /\ subAlive' = FALSE
  /\ inflight' = 0 /\ new_cursor' = None
  /\ subsOpened' = "none" /\ passedRun' = {} /\ passedTwice' = {}
  /\ UNCHANGED <<upstream, now, dbVars, readVars, passed, owed, dbFault,
                 firstInsert, reinserted, storedWith>>

Restart ==
  /\ pc = "down"
  /\ pc' = "boot"
  /\ UNCHANGED <<envVars, sleepSecs, lastFailure, initial_cursor, cursor_us,
                 current_cursor, subVars, cbVars, dbVars, readVars, histVars>>


(***************************************************************************)
(* jetstream::connect_and_run: the outer loop.                             *)
(***************************************************************************)
\* a mutant of CursorForConnect: every reconnection reuses the cursor the
\* function was started with
CursorForConnectStale == initial_cursor

\* a mutant of CursorForConnect: every subscription starts at the live tail
CursorForConnectNone == None

\* cursor_for_connect: the cursor the next subscription is opened with
CursorForConnect == cursor_us

\* a mutant of OnChannelClosed: a closed channel ends connect_and_run
OnChannelClosedReturn == "returned"

\* where the consumer goes when recv_async reports a closed channel:
\* break, then the sleep before the reconnect
OnChannelClosed == "sleep"

\* a mutant of OnTimeout: the receive is awaited again on the same receiver
OnTimeoutStay == "recv"

\* where the consumer goes when the 60 s timeout fires: break, then the
\* sleep before the reconnect
OnTimeout == "sleep"

\* JetstreamConnector::new(config) fails: log, sleep 5 s, continue
ConnectorFail ==
  /\ pc = "loop"
  /\ faults < MaxFaults
  /\ faults' = faults + 1
  /\ pc' = "sleep" /\ sleepSecs' = RETRY_SLEEP_SECS
  /\ lastFailure' = "connector"
  /\ UNCHANGED <<upstream, now, initial_cursor, cursor_us, current_cursor,
                 subVars, cbVars, dbVars, readVars, histVars>>

\* connector.connect() fails: log, sleep 5 s, continue
ConnectFail ==
  /\ pc = "loop"
  /\ faults < MaxFaults
  /\ faults' = faults + 1
  /\ pc' = "sleep" /\ sleepSecs' = RETRY_SLEEP_SECS
  /\ lastFailure' = "connect"
  /\ UNCHANGED <<upstream, now, initial_cursor, cursor_us, current_cursor,
                 subVars, cbVars, dbVars, readVars, histVars>>

\* connector.connect() succeeds: a subscription parameterised by the cursor
ConnectOk ==
  /\ pc = "loop"
  /\ pc' = "recv"
  /\ lastFailure' = "none"
  /\ subCursor' = CursorForConnect
  /\ subPos' = SubStart(CursorForConnect)
  /\ subAlive' = TRUE
  /\ owed' = owed \cup HeldAtOrAfter(CursorForConnect)
  /\ subsOpened' = IF subsOpened = "none" THEN "one" ELSE "many"
  /\ passedRun' = IF subsOpened = "none" THEN passedRun ELSE {}
  /\ passedTwice' = IF subsOpened = "none" THEN passedTwice ELSE {}
  /\ UNCHANGED <<envVars, sleepSecs, initial_cursor, cursor_us,
                 current_cursor, cbVars, dbVars, readVars, passed, dbFault,
                 firstInsert, reinserted, storedWith>>

\* tokio::time::sleep(..) is over: next iteration of the outer loop
SleepDone ==
  /\ pc = "sleep"
  /\ pc' = "loop" /\ sleepSecs' = 0
  /\ UNCHANGED <<envVars, lastFailure, initial_cursor, cursor_us,
                 current_cursor, subVars, cbVars, dbVars, readVars, histVars>>

(***************************************************************************)
(* connect_and_run: the inner receive loop.                                *)
(***************************************************************************)
\* a message is there for recv_async to yield
MessageReady == subAlive /\ subPos <= Len(upstream)

\* Ok(Ok(JetstreamEvent::Commit(event))): the event goes to the callback
RecvCommit ==
  /\ pc = "recv" /\ MessageReady
  /\ upstream[subPos].kind = "commit"
  /\ inflight' = subPos
  /\ subPos' = subPos + 1
  /\ passed' = passed \cup {subPos}
  /\ IF subsOpened = "one"
     THEN /\ passedRun' = passedRun \cup {subPos}
          /\ passedTwice' = passedTwice \cup (passedRun \cap {subPos})
     ELSE UNCHANGED <<passedRun, passedTwice>>
  /\ pc' = "cb_helloworld"
  /\ UNCHANGED <<envVars, sleepSecs, lastFailure, initial_cursor, cursor_us,
                 current_cursor, subCursor, subAlive, new_cursor,
                 dbVars, readVars, owed, subsOpened, dbFault, firstInsert,
                 reinserted, storedWith>>

\* Ok(Ok(_)): Identity and Account events are ignored
RecvOther ==
  /\ pc = "recv" /\ MessageReady
  /\ upstream[subPos].kind # "commit"
  /\ subPos' = subPos + 1
  /\ UNCHANGED <<envVars, procVars, subCursor, subAlive, cbVars, dbVars,
                 readVars, histVars>>

\* Ok(Err(_)): the channel is closed; break, sleep 2 s, reconnect
RecvClosed ==
  /\ pc = "recv"
  /\ faults < MaxFaults
  /\ faults' = faults + 1
  /\ pc' = OnChannelClosed /\ sleepSecs' = RECONNECT_SLEEP_SECS
  /\ lastFailure' = "closed"
  /\ subCursor' = None /\ subPos' = 0 /\ subAlive' = FALSE
  /\ UNCHANGED <<upstream, now, initial_cursor, cursor_us, current_cursor,
                 cbVars, dbVars, readVars, histVars>>

\* Err(_): 60 s went by and no message arrived; break, sleep 2 s, reconnect
RecvTimeout ==
  /\ pc = "recv" /\ ~MessageReady
  /\ pc' = OnTimeout /\ sleepSecs' = RECONNECT_SLEEP_SECS
  /\ lastFailure' = "timeout"
  /\ subCursor' = None /\ subPos' = 0 /\ subAlive' = FALSE
  /\ UNCHANGED <<envVars, initial_cursor, cursor_us, current_cursor, cbVars,
                 dbVars, readVars, histVars>>


(***************************************************************************)
(* main: the consumer callback, one step per awaited call.                 *)
(***************************************************************************)
\* the reading of the next call of chrono::Utc::now(): the clock has moved
\* on since the last reading (and stops at MaxNow)
ClockReading == Min(now + 1, MaxNow)

\* history kept when an INSERT statement for event i is executed on index k
NoteInsert(k, i, row) ==
  /\ firstInsert' = [firstInsert EXCEPT ![k][i] = OrElse(@, Some(row))]
  /\ reinserted' = IF IsSome(firstInsert[k][i])
                   THEN reinserted \cup {<<k, i>>} ELSE reinserted

\* a mutant of ProcessHelloworld: a failed INSERT ends the handling of the
\* event, fakebluesky is not called
ProcessHelloworldFatal(insertOk) ==
  /\ pc = "cb_helloworld"
  /\ LET row == HelloworldRow(inflight, ClockReading) IN
     IF row = None
     THEN /\ insertOk
          /\ UNCHANGED <<now, faults, hwIndex, firstInsert, reinserted>>
     ELSE /\ insertOk \/ faults < MaxFaults
          /\ now' = ClockReading
          /\ faults' = IF insertOk THEN faults ELSE faults + 1
          /\ hwIndex' = IF insertOk THEN InsertOrIgnore(hwIndex, Unwrap(row))
                        ELSE hwIndex
          /\ IF insertOk THEN NoteInsert("hw", inflight, Unwrap(row))
             ELSE UNCHANGED <<firstInsert, reinserted>>
  /\ pc' = IF insertOk THEN "cb_fakebluesky" ELSE "cb_save"
  /\ UNCHANGED <<upstream, sleepSecs, lastFailure, initial_cursor, cursor_us,
                 current_cursor, subVars, cbVars, cursorRow, fbIndex,
                 readVars, passed, passedRun, passedTwice, owed, subsOpened,
                 dbFault, storedWith>>

\* helloworld::process_event(&helloworld_pool, &event).await
ProcessHelloworld(insertOk) ==
  /\ pc = "cb_helloworld"
  /\ LET row == HelloworldRow(inflight, ClockReading) IN
     IF row = None
     THEN /\ insertOk
          /\ UNCHANGED <<now, faults, hwIndex, firstInsert, reinserted>>
     ELSE /\ insertOk \/ faults < MaxFaults
          /\ now' = ClockReading
          /\ faults' = IF insertOk THEN faults ELSE faults + 1
          /\ hwIndex' = IF insertOk THEN InsertOrIgnore(hwIndex, Unwrap(row))
                        ELSE hwIndex
          /\ IF insertOk THEN NoteInsert("hw", inflight, Unwrap(row))
             ELSE UNCHANGED <<firstInsert, reinserted>>
  /\ pc' = "cb_fakebluesky"
  /\ UNCHANGED <<upstream, sleepSecs, lastFailure, initial_cursor, cursor_us,
                 current_cursor, subVars, cbVars, cursorRow, fbIndex,
                 readVars, passed, passedRun, passedTwice, owed, subsOpened,
                 dbFault, storedWith>>

\* fakebluesky::process_event(&fakebluesky_pool, &event).await, and
\* new_cursor = fb_cursor.or(hw_cursor)
ProcessFakebluesky(outcomes, insertOk) ==
  /\ pc = "cb_fakebluesky"
  /\ IF ~FbAnalyses(inflight)
     THEN /\ outcomes = <<>> /\ insertOk
          /\ UNCHANGED <<faults, fbIndex, firstInsert, reinserted, storedWith>>
     ELSE /\ Len(outcomes) = upstream[inflight].images
          /\ IF has_blue_sky_images(outcomes)
             THEN /\ insertOk
                  /\ UNCHANGED <<faults, fbIndex, firstInsert, reinserted,
                                 storedWith>>
             ELSE /\ insertOk \/ faults < MaxFaults
                  /\ faults' = IF insertOk THEN faults ELSE faults + 1
                  /\ fbIndex' = IF insertOk
                                THEN InsertOrIgnore(fbIndex, FbRow(inflight))
                                ELSE fbIndex
                  /\ IF insertOk
                     THEN /\ NoteInsert("fb", inflight, FbRow(inflight))
                          /\ storedWith' =
                               IF IsSome(firstInsert["fb"][inflight])
                               THEN storedWith
                               ELSE [storedWith EXCEPT ![inflight] = outcomes]
                     ELSE UNCHANGED <<firstInsert, reinserted, storedWith>>
  /\ new_cursor' = OrElse(FbCursor(inflight), HwCursor)
  /\ pc' = "cb_save"
  /\ UNCHANGED <<upstream, now, sleepSecs, lastFailure, initial_cursor,
                 cursor_us, current_cursor, subVars, inflight, cursorRow,
                 hwIndex, readVars, passed, passedRun, passedTwice, owed,
                 subsOpened, dbFault>>

\* the rest of the callback: *current = Some(cursor_us), INSERT OR REPLACE
\* INTO jetstream_cursor, return; connect_and_run then takes the returned
\* value as its cursor_us
SaveCursor(writeOk) ==
  /\ pc = "cb_save"
  /\ IF new_cursor = None
     THEN /\ writeOk
          /\ UNCHANGED <<faults, current_cursor, cursorRow, cursor_us, dbFault>>
     ELSE /\ writeOk \/ faults < MaxFaults
          /\ faults' = IF writeOk THEN faults ELSE faults + 1
          /\ current_cursor' = new_cursor
          /\ cursorRow' = IF writeOk THEN new_cursor ELSE cursorRow
          /\ dbFault' = (dbFault \/ ~writeOk)
          /\ cursor_us' = new_cursor
  /\ inflight' = 0 /\ new_cursor' = None
  /\ pc' = "recv"
  /\ UNCHANGED <<upstream, now, sleepSecs, lastFailure, initial_cursor,
                 subVars, hwIndex, fbIndex, readVars, passed, passedRun,
                 passedTwice, owed, subsOpened, firstInsert, reinserted, storedWith>>

(***************************************************************************)
(* The ingestion specification: a fresh deployment with ENABLE_JETSTREAM.  *)
(***************************************************************************)
\* 2024-12-31T12:00:00Z, the instant the behaviours of the request handlers
\* start at
StartSecs == 1735646400

\* what the handlers that use the service token leave alone (plCache is
\* written by the refresh of the private list)
svcFrame == <<envVars, procVars, subVars, cbVars, dbVars, histVars, plMembers,
              resp, analyses, handlers, auth_guard>>

\* a request as the handler receives it, before its first upstream call
NewRequest(feed, header, did, limit, cursor) ==
  [phase |-> "new", feed |-> feed, header |-> header, did |-> did,
   limit |-> limit,
   cursor |-> cursor, token |-> None, attempt |-> 1, reauths |-> 0,
   unauthorized |-> FALSE, failure |-> None, raised |-> None,
   targets |-> <<>>, target |-> "",
   offset |-> 0, now_utc |-> 0, tz_get |-> "none", tz_set |-> FALSE,
   lookups |-> 0,
   hit |-> FALSE, wrote |-> FALSE, readOk |-> TRUE, years_ago |-> 0, api_cursor |-> None,
   acc |-> <<>>, calls |-> <<>>, searches |-> 0,
   status |-> 0, error |-> None, next |-> None]

\* no request is being served with the service token
NoRequest == [NewRequest("none", "valid", <<>>, 0, None) EXCEPT !.phase = "idle"]

\* no get_raw has been made
NoGet == [key |-> <<>>, at |-> 0, row |-> None, ret |-> None]

\* the handlers that use the service token are at rest, the cache is empty
ServiceIdle ==
  /\ wall = StartSecs
  /\ cache = {}
  /\ service_auth = [token |-> None, did |-> None]
  /\ auth_handle = <<>>
  /\ rq = NoRequest
  /\ cleaners = <<>>
  /\ done = <<>>
  /\ getLog = NoGet

NoResponse ==
  [feed |-> "none", cursorIn |-> None, limitIn |-> None, nextPage |-> FALSE,
   status |-> "none", items |-> <<>>, cursorOut |-> None, stamps |-> <<>>,
   sqlLimit |-> 0]

InitIngest ==
  /\ upstream = <<>>
  /\ now = 1
  /\ faults = 0
  /\ pc = "boot"
  /\ sleepSecs = 0
  /\ lastFailure = "none"
  /\ initial_cursor = None /\ cursor_us = None /\ current_cursor = None
  /\ subCursor = None /\ subPos = 0 /\ subAlive = FALSE
  /\ inflight = 0 /\ new_cursor = None
  /\ cursorRow = None
  /\ hwIndex = {} /\ fbIndex = {}
  /\ plMembers = EmptyBag /\ plCache = {} /\ resp = NoResponse
  /\ analyses = <<>>
  /\ handlers = <<>>
  /\ auth_guard = Unlocked
  /\ ServiceIdle
  /\ passed = {} /\ passedRun = {} /\ passedTwice = {}
  /\ owed = {}
  /\ subsOpened = "none"
  /\ dbFault = FALSE
  /\ firstInsert = [k \in {"hw", "fb"} |-> [i \in 1..MaxEvents |-> None]]
  /\ reinserted = {}
  /\ storedWith = [i \in 1..MaxEvents |-> <<>>]

\* the outcomes the analyses of the images of one post can have
AnalysisRuns ==
  UNION {[1..n -> AnalysisOutcomes] : n \in {s.images : s \in EventShapes}}

Consumer ==
  \/ \E readOk \in BOOLEAN : MainLoadCursor(readOk)
  \/ Restart
  \/ ConnectorFail
  \/ ConnectFail
  \/ ConnectOk
  \/ SleepDone
  \/ RecvCommit
  \/ RecvOther
  \/ RecvClosed
  \/ RecvTimeout
  \/ \E insertOk \in BOOLEAN : ProcessHelloworld(insertOk)
  \/ \E outcomes \in AnalysisRuns, insertOk \in BOOLEAN :
       ProcessFakebluesky(outcomes, insertOk)
  \/ \E writeOk \in BOOLEAN : SaveCursor(writeOk)

Next ==
  \/ \E shape \in EventShapes : UpstreamAppend(shape)
  \/ Zombie
  \/ Crash
  \/ Consumer

Spec == InitIngest /\ [][Next]_vars


\* The steps the runtime and a working environment take sooner or later:
\* the consumer task is scheduled, a timer fires, a ready message is
\* received, a statement or a connection attempt that can succeed does.
\* Faults are finitely many (MaxFaults).
Progress ==
  \/ MainLoadCursor(TRUE)
  \/ Restart
  \/ ConnectOk
  \/ SleepDone
  \/ RecvCommit
  \/ RecvOther
  \/ RecvTimeout
  \/ ProcessHelloworld(TRUE)
  \/ \E outcomes \in AnalysisRuns : ProcessFakebluesky(outcomes, TRUE)
  \/ SaveCursor(TRUE)

FairSpec == Spec /\ WF_vars(Progress)

(***************************************************************************)
(* Claims about the stream consumer.                                       *)
(***************************************************************************)
\* C1: while no cursor write and no cursor load has failed, every commit
\* event upstream held at-or-after the cursor in force at a (re)connection
\* is eventually passed to the callback, whatever channel closes, receive
\* timeouts, connect failures and restarts occur; and in a run that opened
\* one subscription only, no event is passed to the callback twice.
C1_AtLeastOnceDelivery ==
  /\ [](passedTwice = {})
  /\ \A i \in 1..MaxEvents :
       (i \in owed /\ ~dbFault) ~> (i \in passed \/ dbFault)

\* C1 witness: an owed event has been passed to the callback in a run that
\* reconnected, with every cursor write and load successful.
C1_Witness ==
  /\ subsOpened = "many" /\ ~dbFault /\ faults > 0
  /\ owed # {} /\ owed \subseteq passed

\* C2: a value written to the jetstream_cursor row is never smaller than the
\* row's current value nor than the value written before it in this run.
C2_CursorNeverDecreases ==
  [][(pc = "cb_save" /\ pc' = "recv" /\ IsSome(new_cursor)) =>
       /\ IsSome(cursorRow) => Unwrap(new_cursor) >= Unwrap(cursorRow)
       /\ IsSome(cursor_us) => Unwrap(new_cursor) >= Unwrap(cursor_us)]_vars

\* C2 witness: after a reconnect the replayed event's cursor is about to be
\* written over the equal value saved before.
C2_Witness ==
  /\ pc = "cb_save" /\ subsOpened = "many"
  /\ IsSome(new_cursor) /\ cursorRow = new_cursor

\* C3: when the 60 s timeout fires the consumer leaves the receive loop for
\* the 2 s sleep, the next subscription is opened with cursor_us, and a
\* consumer waiting on a silent subscription does not wait forever.
C3_TimeoutReconnects ==
  /\ [][(pc = "recv" /\ ~MessageReady /\ lastFailure' = "timeout") =>
          (pc' = "sleep" /\ sleepSecs' = RECONNECT_SLEEP_SECS /\ ~subAlive')]_vars
  /\ [][(pc = "loop" /\ pc' = "recv") =>
          (subAlive' /\ subCursor' = cursor_us /\ cursor_us' = cursor_us)]_vars
  /\ (pc = "recv" /\ ~MessageReady) ~> (pc # "recv" \/ MessageReady)
  /\ (pc = "recv" /\ ~subAlive) ~> (pc = "recv" /\ subAlive)

\* C3 witness: the consumer sleeps after a timeout, holding a cursor.
C3_Witness ==
  pc = "sleep" /\ lastFailure = "timeout" /\ IsSome(cursor_us)

\* the control locations of a running consumer
LoopLocations ==
  {"boot", "loop", "sleep", "recv", "cb_helloworld", "cb_fakebluesky",
   "cb_save", "down"}

\* C4: connect_and_run never returns: a connector or connect failure is
\* followed by a 5 s sleep, a closed channel or a timeout by a 2 s sleep,
\* every sleep by a new attempt, and a failed statement in the callback
\* leaves the consumer in its loop.
C4_NeverReturns ==
  /\ [](pc \in LoopLocations)
  /\ [](pc = "sleep" =>
          /\ lastFailure \in {"connector", "connect"}
               => sleepSecs = RETRY_SLEEP_SECS
          /\ lastFailure \in {"closed", "timeout"}
               => sleepSecs = RECONNECT_SLEEP_SECS
          /\ lastFailure # "none")
  /\ [][(faults' > faults /\ pc \in {"cb_helloworld", "cb_fakebluesky",
                                     "cb_save"})
          => pc' \in {"cb_fakebluesky", "cb_save", "recv", "down"}]_vars
  /\ (pc = "sleep") ~> (pc = "loop")
  /\ (pc = "loop") ~> (pc = "recv")

\* C4 witness: the consumer is receiving again after a failed cursor write
\* and a reconnection.
C4_Witness ==
  pc = "recv" /\ dbFault /\ subsOpened = "many" /\ faults = MaxFaults

(***************************************************************************)
(* Claims about the processors.                                            *)
(***************************************************************************)
\* the rows of index k that belong to event i
RowsOf(k, i) ==
  {r \in (IF k = "hw" THEN hwIndex ELSE fbIndex) :
     r.uri = PostUri(AUTHOR_DID, POST_COLLECTION, i)}

\* C5: once an event's post has been inserted, its index holds exactly one
\* row for the URI, the row of the first insert, however often the event is
\* processed again.
C5_FirstWriteWins ==
  \A k \in {"hw", "fb"}, i \in 1..MaxEvents :
    IsSome(firstInsert[k][i]) => RowsOf(k, i) = {Unwrap(firstInsert[k][i])}

\* C5 witness: an INSERT was executed a second time on both indexes.
C5_Witness ==
  /\ \E i \in 1..MaxEvents : <<"hw", i>> \in reinserted
  /\ \E i \in 1..MaxEvents : <<"fb", i>> \in reinserted

MaxRows == 2
MaxStamp == 2

\* i64::MAX; the largest integer of the model checker stands in for
\* 9223372036854775807: every indexed_at of the model is below it
I64_MAX == 2147483647
\* limit.unwrap_or(30).min(100)
DEFAULT_LIMIT == 30
MAX_LIMIT == 100

HW_PINNED ==
  PostUri("did:plc:tsvcmd72oxp47wtixs4qllyi", POST_COLLECTION, "3ldy6oad3vk27")
PL_PINNED ==
  PostUri("did:plc:tsvcmd72oxp47wtixs4qllyi", POST_COLLECTION, "3letuz6sqa22o")

\* Strings are sequences of characters.
Digits == <<"0", "1", "2", "3", "4", "5", "6", "7", "8", "9">>
IsDigit(ch) == \E d \in 1..10 : Digits[d] = ch
DigitValue(ch) == (CHOOSE d \in 1..10 : Digits[d] = ch) - 1

RECURSIVE DigitsValue(_)
DigitsValue(s) ==
  IF s = <<>> THEN 0
  ELSE 10 * DigitsValue(SubSeq(s, 1, Len(s) - 1)) + DigitValue(s[Len(s)])

\* c.parse::<i64>().ok(): an optional sign, then one or more decimal digits
\* and nothing else (the strings of the model are too short to overflow)
ParseI64(s) ==
  LET signed == Len(s) > 0 /\ s[1] \in {"+", "-"}
      body == IF signed THEN Tail(s) ELSE s
  IN IF body = <<>> \/ \E k \in 1..Len(body) : ~IsDigit(body[k])
     THEN None
     ELSE Some(IF signed /\ s[1] = "-" THEN 0 - DigitsValue(body)
               ELSE DigitsValue(body))

RECURSIVE NatToString(_)
NatToString(n) ==
  IF n < 10 THEN <<Digits[n + 1]>>
  ELSE NatToString(n \div 10) \o <<Digits[(n % 10) + 1]>>

\* i64::to_string
to_string(n) == IF n < 0 THEN <<"-">> \o NatToString(0 - n) ELSE NatToString(n)

\* cursor.as_ref().and_then(|c| c.parse::<i64>().ok())
CursorVal(cursor) == IF IsSome(cursor) THEN ParseI64(Unwrap(cursor)) ELSE None

\* ORDER BY indexed_at DESC: the orders the statement allows (it does not
\* fix the order of rows with equal indexed_at)
RECURSIVE OrderByIndexedAtDesc(_)
OrderByIndexedAtDesc(S) ==
  IF S = {} THEN {<<>>}
  ELSE UNION {{<<r>> \o o : o \in OrderByIndexedAtDesc(S \ {r})} :
                r \in {x \in S : \A y \in S : x.indexed_at >= y.indexed_at}}

\* LIMIT n (a negative n is no limit); Iterator::take(n)
Take(rows, n) == IF n < 0 THEN rows ELSE SubSeq(rows, 1, Min(n, Len(rows)))

Uris(rows) == [k \in 1..Len(rows) |-> rows[k].uri]
Stamps(rows) == [k \in 1..Len(rows) |-> rows[k].indexed_at]

\* rows.last() indexed_at .to_string()
LastStamp(rows) ==
  IF rows = <<>> THEN None ELSE Some(to_string(rows[Len(rows)].indexed_at))

\* an answer without feed: 401, 500, or a panicked handler
NoFeed(status) ==
  [status |-> status, items |-> <<>>, cursorOut |-> None, stamps |-> <<>>,
   sqlLimit |-> 0]

Answer(items, cursorOut, rows, sqlLimit) ==
  [status |-> "ok", items |-> items, cursorOut |-> cursorOut,
   stamps |-> Stamps(rows), sqlLimit |-> sqlLimit]

\* ---- helloworld ----
\* SELECT uri, indexed_at FROM helloworld_posts WHERE indexed_at < ?
\* ORDER BY indexed_at DESC LIMIT ?
HelloworldQuery(table, bound, lim) ==
  {Take(o, lim) : o \in OrderByIndexedAtDesc({r \in table : r.indexed_at < bound})}

\* the limit of the statement; (limit - 1) on usize 0 wraps to usize::MAX in
\* a build without overflow checks, and usize::MAX as i64 is -1
HwDbLimit(cursor, limit) ==
  IF cursor = None
  THEN (IF limit = 0 THEN 0 - 1 ELSE Max(limit - 1, 1))
  ELSE limit

\* helloworld::get_feed_skeleton: the answers it can give
HelloworldAnswers(cursor, limitIn, overflowChecks, dbOk) ==
  LET limit == Min(UnwrapOr(limitIn, DEFAULT_LIMIT), MAX_LIMIT)
      pinned == IF cursor = None THEN <<HW_PINNED>> ELSE <<>>
      cursor_val == UnwrapOr(CursorVal(cursor), I64_MAX)
      db_limit == HwDbLimit(cursor, limit)
  IN IF cursor = None /\ limit = 0 /\ overflowChecks
     THEN {NoFeed("panic")}
     ELSE IF ~dbOk
     THEN {Answer(pinned, None, <<>>, db_limit)}
     ELSE {Answer(pinned \o Uris(rows), LastStamp(rows), rows, db_limit) :
             rows \in HelloworldQuery(hwIndex, cursor_val, db_limit)}

\* ---- fakebluesky ----
\* SELECT uri, indexed_at FROM fake_bluesky_posts WHERE indexed_at < ?
\* ORDER BY indexed_at DESC LIMIT ?
FakeblueskyQuery(table, bound, lim) ==
  {Take(o, lim) : o \in OrderByIndexedAtDesc({r \in table : r.indexed_at < bound})}

\* handle_fakebluesky and fakebluesky::get_feed_skeleton
FakeblueskyAnswers(cursor, limitIn, dbOk) ==
  LET limit == Min(UnwrapOr(limitIn, DEFAULT_LIMIT), MAX_LIMIT)
      indexed_at_cursor == UnwrapOr(CursorVal(cursor), I64_MAX)
  IN IF ~dbOk
     THEN {NoFeed("error")}
     ELSE {LET has_more == Len(rows) > limit
               posts == Take(rows, limit)
           IN Answer(Uris(posts),
                     IF has_more THEN LastStamp(posts) ELSE None,
                     posts, limit + 1) :
             rows \in FakeblueskyQuery(fbIndex, indexed_at_cursor, limit + 1)}

\* ---- privatelist ----
\* the requester DIDs of the model
DID_A == <<"d", "i", "d", ":", "p", "l", "c", ":", "a">>
DID_B == <<"d", "i", "d", ":", "p", "l", "c", ":", "b">>

\* the orders a SELECT may list rows in that its ORDER BY does not separate
RECURSIVE Orders(_)
Orders(S) ==
  IF S = {} THEN {<<>>}
  ELSE UNION {{<<x>> \o o : o \in Orders(S \ {x})} : x \in S}

\* a row of private_list_members (created_at, of the second the row was
\* inserted in, only orders the list)
Member(user_did, target_did) ==
  [user_did |-> user_did, target_did |-> target_did]

\* the table in which the list of the user is S and the other lists are empty
MembersOf(user_did, S) == SetToBag({Member(user_did, t) : t \in S})

\* a mutant of add_user: INSERT INTO a table without the primary key
add_user_again(table, user_did, target_did) ==
  table (+) SetToBag({Member(user_did, target_did)})

\* db::add_user: INSERT OR IGNORE INTO private_list_members
add_user(table, user_did, target_did) ==
  IF BagIn(Member(user_did, target_did), table) THEN table
  ELSE table (+) SetToBag({Member(user_did, target_did)})

\* db::remove_user: DELETE ... WHERE user_did = ? AND target_did = ?
remove_user(table, user_did, target_did) ==
  [r \in DOMAIN table \ {Member(user_did, target_did)} |-> table[r]]

\* db::list_users: SELECT target_did ... WHERE user_did = ? ORDER BY
\* created_at DESC, one target per row; the lists the statement may return
list_users(table, user_did) ==
  LET rows == UNION {{<<r, k>> : k \in 1..table[r]} :
                       r \in {x \in DOMAIN table : x.user_did = user_did}}
  IN {[i \in 1..Len(o) |-> o[i][1].target_did] : o \in Orders(rows)}

\* the elements of a list
Elements(list) == {list[i] : i \in 1..Len(list)}

\* a mutant of get_cached_posts: indexed_at <= ?
get_cached_posts_inclusive(table, authors, limit, cursor) ==
  IF authors = {} THEN {<<>>}
  ELSE {Take(o, limit) :
          o \in OrderByIndexedAtDesc(
                  {r \in table : r.author_did \in authors
                                 /\ r.indexed_at <= UnwrapOr(cursor, now)})}

\* a mutant of get_cached_posts: no author_did IN (...)
get_cached_posts_any_author(table, authors, limit, cursor) ==
  IF authors = {} THEN {<<>>}
  ELSE {Take(o, limit) :
          o \in OrderByIndexedAtDesc(
                  {r \in table : r.indexed_at < UnwrapOr(cursor, now)})}

\* db::get_cached_posts: ... WHERE author_did IN (...) AND indexed_at < ?
\* ORDER BY indexed_at DESC LIMIT ?, the bound defaulting to the clock
get_cached_posts(table, authors, limit, cursor) ==
  IF authors = {} THEN {<<>>}
  ELSE {Take(o, limit) :
          o \in OrderByIndexedAtDesc(
                  {r \in table : r.author_did \in authors
                                 /\ r.indexed_at < UnwrapOr(cursor, now)})}

\* handle_privatelist and privatelist::get_feed_skeleton
PrivatelistAnswers(did, cursor, limitIn, dbOk) ==
  LET limit == UnwrapOr(limitIn, DEFAULT_LIMIT)
  IN IF ~dbOk
     THEN {NoFeed("error")}
     ELSE UNION {
       IF targets = <<>>
       THEN {Answer(<<PL_PINNED>>, None, <<>>, 0)}
       ELSE {Answer(Uris(posts), LastStamp(posts), posts, limit) :
               posts \in get_cached_posts(plCache, Elements(targets), limit,
                                          CursorVal(cursor))} :
       targets \in list_users(plMembers, did)}

\* the request parameters tried: no cursor, decimal cursors, cursors that are
\* no decimal integer; no limit, small limits, a limit above the maximum
CursorInputs == {None, Some(<<"3">>), Some(<<"a", "b", "c">>), Some(<<>>)}
LimitInputs == {None, Some(0), Some(1), Some(101)}

\* the request asks for the page after the preceding first page of the feed
NextPageOf(feed, cursor) ==
  /\ resp.feed = feed /\ resp.status = "ok"
  /\ resp.cursorIn = None /\ IsSome(resp.cursorOut)
  /\ cursor = resp.cursorOut

Exchange(feed, cursor, limitIn, answer) ==
  [feed |-> feed, cursorIn |-> cursor, limitIn |-> limitIn,
   nextPage |-> NextPageOf(feed, cursor),
   status |-> answer.status, items |-> answer.items,
   cursorOut |-> answer.cursorOut, stamps |-> answer.stamps,
   sqlLimit |-> answer.sqlLimit]

readFrame ==
  <<envVars, procVars, subVars, cbVars, dbVars, histVars, plMembers, plCache,
    analyses, handlers, auth_guard, svcVars>>

\* handle_helloworld
ReadHelloworld(authorized, cursor, limitIn, overflowChecks, dbOk) ==
  /\ \E answer \in (IF authorized
                    THEN HelloworldAnswers(cursor, limitIn, overflowChecks, dbOk)
                    ELSE {NoFeed("unauthorized")}) :
       resp' = Exchange("helloworld", cursor, limitIn, answer)
  /\ UNCHANGED readFrame

\* handle_fakebluesky
ReadFakebluesky(cursor, limitIn, dbOk) ==
  /\ \E answer \in FakeblueskyAnswers(cursor, limitIn, dbOk) :
       resp' = Exchange("fakebluesky", cursor, limitIn, answer)
  /\ UNCHANGED readFrame

\* handle_privatelist
ReadPrivatelist(authorized, did, cursor, limitIn, dbOk) ==
  /\ \E answer \in (IF authorized
                    THEN PrivatelistAnswers(did, cursor, limitIn, dbOk)
                    ELSE {NoFeed("unauthorized")}) :
       resp' = Exchange("privatelist", cursor, limitIn, answer)
  /\ UNCHANGED readFrame

\* the contents of an index: each post absent (0) or indexed at a stamp,
\* later posts not before earlier ones, equal stamps allowed
Contents ==
  {c \in [1..MaxRows -> 0..MaxStamp] :
     \A i, j \in 1..MaxRows : i < j => c[i] <= c[j]}
PL_AUTHORS == {"did:plc:alice", "did:plc:bob"}
PlAuthor(i) == IF i % 2 = 1 THEN "did:plc:alice" ELSE "did:plc:bob"

PostRows(c) ==
  {[uri |-> PostUri(AUTHOR_DID, POST_COLLECTION, i), cid |-> i,
    indexed_at |-> c[i]] : i \in {j \in 1..MaxRows : c[j] > 0}}
CacheRows(c) ==
  {[uri |-> PostUri(PlAuthor(i), POST_COLLECTION, i), cid |-> i,
    author_did |-> PlAuthor(i), indexed_at |-> c[i]] :
     i \in {j \in 1..MaxRows : c[j] > 0}}

\* The server with ENABLE_JETSTREAM unset: the indexes hold what earlier
\* runs left, the consumer is not spawned.
InitRead ==
  /\ upstream = <<>>
  /\ now \in {MaxStamp, MaxStamp + 1}
  /\ faults = 0
  /\ pc = "off"
  /\ sleepSecs = 0
  /\ lastFailure = "none"
  /\ initial_cursor = None /\ cursor_us = None /\ current_cursor = None
  /\ subCursor = None /\ subPos = 0 /\ subAlive = FALSE
  /\ inflight = 0 /\ new_cursor = None
  /\ cursorRow = None
  /\ \E c \in Contents :
       hwIndex = PostRows(c) /\ fbIndex = PostRows(c) /\ plCache = CacheRows(c)
  /\ plMembers \in {MembersOf(DID_A, S) : S \in SUBSET PL_AUTHORS}
  /\ resp = NoResponse
  /\ analyses = <<>>
  /\ handlers = <<>>
  /\ auth_guard = Unlocked
  /\ ServiceIdle
  /\ passed = {} /\ passedRun = {} /\ passedTwice = {}
  /\ owed = {}
  /\ subsOpened = "none"
  /\ dbFault = FALSE
  /\ firstInsert = [k \in {"hw", "fb"} |-> [i \in 1..MaxEvents |-> None]]
  /\ reinserted = {}
  /\ storedWith = [i \in 1..MaxEvents |-> <<>>]

\* the cursors a client sends: the inputs above or the cursor it was given
ClientCursors == CursorInputs \cup {resp.cursorOut}

\* what can go wrong while a request is served: no authorization header,
\* a failing statement, a build with overflow checks
ReadConditions ==
  {[authorized |-> FALSE, overflowChecks |-> FALSE, dbOk |-> TRUE],
   [authorized |-> TRUE, overflowChecks |-> FALSE, dbOk |-> FALSE],
   [authorized |-> TRUE, overflowChecks |-> FALSE, dbOk |-> TRUE],
   [authorized |-> TRUE, overflowChecks |-> TRUE, dbOk |-> TRUE]}

NextRead ==
  \/ \E e \in ReadConditions, cursor \in ClientCursors, limitIn \in LimitInputs :
       ReadHelloworld(e.authorized, cursor, limitIn, e.overflowChecks, e.dbOk)
  \/ \E dbOk \in BOOLEAN, cursor \in ClientCursors, limitIn \in LimitInputs :
       ReadFakebluesky(cursor, limitIn, dbOk)
  \/ \E e \in {x \in ReadConditions : ~x.overflowChecks},
        cursor \in ClientCursors, limitIn \in LimitInputs :
       ReadPrivatelist(e.authorized, DID_A, cursor, limitIn, e.dbOk)

SpecRead == InitRead /\ [][NextRead]_vars

(***************************************************************************)
(* Claims about the read path.                                             *)
(***************************************************************************)
\* the cursor of the request, parsed
RespCursorVal == CursorVal(resp.cursorIn)

\* C7: a read answered from helloworld, fakebluesky or privatelist with a
\* decimal cursor c returns only rows with indexed_at < c; a returned cursor
\* c' is the decimal indexed_at of the last returned row, so c' < c.
C7_StrictProgress ==
  (resp.status = "ok" /\ resp.feed \in {"helloworld", "fakebluesky", "privatelist"}) =>
    /\ IsSome(RespCursorVal) =>
         \A k \in 1..Len(resp.stamps) : resp.stamps[k] < Unwrap(RespCursorVal)
    /\ IsSome(resp.cursorOut) =>
         /\ resp.stamps # <<>>
         /\ ParseI64(Unwrap(resp.cursorOut)) = Some(resp.stamps[Len(resp.stamps)])
         /\ Unwrap(resp.cursorOut) = to_string(resp.stamps[Len(resp.stamps)])
         /\ IsSome(RespCursorVal) =>
              Unwrap(ParseI64(Unwrap(resp.cursorOut))) < Unwrap(RespCursorVal)

\* C7 witness: a privatelist read with a decimal cursor returned two rows and
\* a cursor.
C7_Witness ==
  /\ resp.feed = "privatelist" /\ resp.status = "ok"
  /\ IsSome(RespCursorVal) /\ IsSome(resp.cursorOut)
  /\ Len(resp.stamps) >= 2

\* the requested limit clamped to [1, MAX_LIMIT], DEFAULT_LIMIT if absent
ClampedLimit(limitIn) == Max(1, Min(UnwrapOr(limitIn, DEFAULT_LIMIT), MAX_LIMIT))

\* C8 as the claim states it: a helloworld read with no cursor returns the
\* pinned URI first and at most limit items, and the read of the next page
\* with the returned cursor does not contain the pinned URI.
C8_PinnedFirstWithinLimit ==
  (resp.feed = "helloworld" /\ resp.status = "ok") =>
    /\ resp.cursorIn = None =>
         /\ resp.items # <<>> /\ resp.items[1] = HW_PINNED
         /\ Len(resp.items) <= ClampedLimit(resp.limitIn)
    /\ resp.nextPage =>
         \A k \in 1..Len(resp.items) : resp.items[k] # HW_PINNED

\* what a feed can answer to a request on the present tables, by its code
AnswersOf(feed, cursor, limitIn) ==
  IF feed = "helloworld"
  THEN HelloworldAnswers(cursor, limitIn, FALSE, TRUE)
       \cup HelloworldAnswers(cursor, limitIn, TRUE, TRUE)
  ELSE IF feed = "fakebluesky" THEN FakeblueskyAnswers(cursor, limitIn, TRUE)
  ELSE PrivatelistAnswers(DID_A, cursor, limitIn, TRUE)

RespAnswer == [items |-> resp.items, cursorOut |-> resp.cursorOut]
Outcome(answer) == [items |-> answer.items, cursorOut |-> answer.cursorOut]

\* C9 as the claim states it: a read returns at most the requested limit
\* clamped to [1, 100] (30 by default), a limit of 0 is answered as a limit
\* of 1 is, and no statement asks for more than 100 rows and the one that
\* tells whether a further page exists.
C9_LimitClamped ==
  (resp.status = "ok" /\ resp.feed # "none") =>
    /\ Len(resp.items) <= ClampedLimit(resp.limitIn)
    /\ resp.limitIn = Some(0) =>
         RespAnswer \in {Outcome(a) : a \in AnswersOf(resp.feed, resp.cursorIn, Some(1))}
    /\ resp.sqlLimit \in 0..(MAX_LIMIT + 1)

\* C10 as the claim states it: a read whose cursor is no decimal integer is
\* answered as the same read without cursor is.
C10_GarbageCursorIsNoCursor ==
  (resp.status = "ok" /\ resp.feed # "none"
     /\ IsSome(resp.cursorIn) /\ ~IsSome(RespCursorVal)) =>
    RespAnswer \in {Outcome(a) : a \in AnswersOf(resp.feed, None, resp.limitIn)}


(***************************************************************************)
(* oneyearago: strings, calendar and cache keys.                           *)
(***************************************************************************)
\* logic.rs: const MIN_SEARCH_YEAR, const DEFAULT_LIMIT
MIN_SEARCH_YEAR == 2023
OYA_DEFAULT_LIMIT == 30

SECS_PER_HOUR == 3600
SECS_PER_DAY == 86400

\* the characters of the model's strings and their UTF-8 bytes
ByteOf(ch) ==
  CASE ch = "-" -> 45
    [] IsDigit(ch) -> 48 + DigitValue(ch)
    [] ch = ":" -> 58
    [] ch = "a" -> 97
    [] ch = "b" -> 98
    [] ch = "c" -> 99
    [] ch = "d" -> 100
    [] ch = "e" -> 101
    [] ch = "f" -> 102
    [] ch = "g" -> 103
    [] ch = "l" -> 108
    [] ch = "p" -> 112
    [] ch = "v" -> 118
    [] ch = "x" -> 120

\* the bit of weight p (a power of two) of a ^ b
XorBit(a, b, p) == ((a \div p + b \div p) % 2) * p

\* bitwise exclusive or of two bytes
Xor(a, b) ==
  ((XorBit(a, b, 1) + XorBit(a, b, 2)) + (XorBit(a, b, 4) + XorBit(a, b, 8)))
    + ((XorBit(a, b, 16) + XorBit(a, b, 32))
         + (XorBit(a, b, 64) + XorBit(a, b, 128)))

\* A u64 is its eight bytes, least significant first.
\* cache.rs feed_key: let mut h: u64 = 14695981039346656037 (0xcbf29ce484222325)
FnvOffsetBasis == <<37, 35, 34, 132, 228, 156, 242, 203>>

\* h.wrapping_mul(1099511628211): the prime is 2^40 + 435, so byte k of the
\* product is 435 * h[k] + h[k-5] + carry, and the bytes above the eighth
\* are dropped
WrappingMulPrime(h) ==
  LET t1 == 435 * h[1]
      t2 == 435 * h[2] + t1 \div 256
      t3 == 435 * h[3] + t2 \div 256
      t4 == 435 * h[4] + t3 \div 256
      t5 == 435 * h[5] + t4 \div 256
      t6 == 435 * h[6] + h[1] + t5 \div 256
      t7 == 435 * h[7] + h[2] + t6 \div 256
      t8 == 435 * h[8] + h[3] + t7 \div 256
  IN <<t1 % 256, t2 % 256, t3 % 256, t4 % 256, t5 % 256, t6 % 256, t7 % 256,
       t8 % 256>>

\* hash ^= byte as u64; hash = hash.wrapping_mul(1099511628211);
FnvStep(h, ch) == WrappingMulPrime([h EXCEPT ![1] = Xor(h[1], ByteOf(ch))])

\* the loop over the bytes lo..hi of s, in order: the first half of the
\* range is hashed, then the second half from the value reached
RECURSIVE Fnv1aRange(_, _, _, _)
Fnv1aRange(h, s, lo, hi) ==
  IF lo > hi THEN h
  ELSE IF lo = hi THEN FnvStep(h, s[lo])
  ELSE LET mid == (lo + hi) \div 2
           left == Fnv1aRange(h, s, lo, mid)
       IN IF left = left THEN Fnv1aRange(left, s, mid + 1, hi) ELSE h

\* for byte in c.bytes() { ... }
Fnv1a(h, s) == Fnv1aRange(h, s, 1, Len(s))

HexDigits ==
  <<"0", "1", "2", "3", "4", "5", "6", "7", "8", "9", "a", "b", "c", "d",
    "e", "f">>

\* format!("{:016x}", h)
Hex16(h) ==
  [k \in 1..16 |->
     LET byte == h[8 - ((k - 1) \div 2)]
     IN HexDigits[(IF k % 2 = 1 THEN byte \div 16 ELSE byte % 16) + 1]]

\* feed_key: the cursor part of the key
cursor_hash(cursor) ==
  IF IsSome(cursor) THEN Hex16(Fnv1a(FnvOffsetBasis, Unwrap(cursor)))
  ELSE <<"n", "o", "n", "e">>

\* format!("fn:{}:{}:{}:{}", did, date, limit, cursor_hash)
feed_key(did, date, limit, cursor) ==
  <<"f", "n", ":">> \o did \o <<":">> \o date \o <<":">> \o to_string(limit)
    \o <<":">> \o cursor_hash(cursor)

\* format!("tz:{}", did)
tz_key(did) == <<"t", "z", ":">> \o did

\* chrono: the civil date of a day number counted from 1970-01-01
CivilFromDays(days) ==
  LET z == days + 719468
      era == z \div 146097
      doe == z - era * 146097
      yoe == (doe - doe \div 1460 + doe \div 36524 - doe \div 146096) \div 365
      doy == doe - (365 * yoe + yoe \div 4 - yoe \div 100)
      mp == (5 * doy + 2) \div 153
      d == doy - (153 * mp + 2) \div 5 + 1
      m == IF mp < 10 THEN mp + 3 ELSE mp - 9
  IN [year |-> yoe + era * 400 + (IF m <= 2 THEN 1 ELSE 0),
      month |-> m, day |-> d]

\* now_utc.with_timezone(&tz_offset).date_naive(), as a day number
LocalDay(t, offset) == (t + offset) \div SECS_PER_DAY

TwoDigits(n) == <<Digits[(n \div 10) + 1], Digits[(n % 10) + 1]>>

\* NaiveDate::format("%y%m%d")
Yymmdd(days) ==
  LET c == CivilFromDays(days)
  IN TwoDigits(c.year % 100) \o TwoDigits(c.month) \o TwoDigits(c.day)

\* logic.rs: format!("{}:{}", today_naive.format("%y%m%d"),
\*                   tz_offset.local_minus_utc())
date_key(t, offset) == Yymmdd(LocalDay(t, offset)) \o <<":">> \o to_string(offset)

\* an entry that expires as it is written
today_end_now(t, offset) == t

\* logic.rs: tomorrow's local midnight, as a UTC timestamp
today_end_utc(t, offset) == (LocalDay(t, offset) + 1) * SECS_PER_DAY - offset


(***************************************************************************)
(* oneyearago: the cache table (cache.rs).  A row is [key, value,          *)
(* expires_at]; key is the primary key.                                    *)
(***************************************************************************)
\* the comparison of get_raw with the boundary included
get_raw_inclusive(table, key, t) ==
  LET hits == {r \in table : r.key = key /\ r.expires_at >= t}
  IN IF hits = {} THEN None ELSE Some((CHOOSE r \in hits : TRUE).value)

\* SELECT value FROM cache WHERE key = ? AND expires_at > ?
get_raw(table, key, t) ==
  LET hits == {r \in table : r.key = key /\ r.expires_at > t}
  IN IF hits = {} THEN None ELSE Some((CHOOSE r \in hits : TRUE).value)

\* INSERT OR REPLACE INTO cache (key, value, expires_at) VALUES (?, ?, ?)
set_raw(table, key, value, expires_at) ==
  {r \in table : r.key # key}
    \cup {[key |-> key, value |-> value, expires_at |-> expires_at]}

\* what a get_raw leaves in the history: the row stored under the key, the
\* instant of the query, and what was returned
GetRecord(table, key, t) ==
  LET rows == {r \in table : r.key = key}
  IN [key |-> key, at |-> t,
      row |-> IF rows = {} THEN None ELSE Some(CHOOSE r \in rows : TRUE),
      ret |-> get_raw(table, key, t)]

\* a mutant of TZ_TTL_SECS: the entry lives for an hour
TZ_TTL_HOUR == SECS_PER_HOUR

\* set_timezone: Duration::hours(24)
TZ_TTL_SECS == 24 * SECS_PER_HOUR

(***************************************************************************)
(* oneyearago: cursor grammar and waterfall (logic.rs).                    *)
(***************************************************************************)
\* str::parse::<i32>(): the same grammar as for i64
ParseI32(s) == ParseI64(s)

\* the index of the first "::" of s, 0 when there is none
FirstSep(s) ==
  LET at == {k \in 1..(Len(s) - 1) : s[k] = ":" /\ s[k + 1] = ":"}
  IN IF at = {} THEN 0 ELSE CHOOSE k \in at : \A j \in at : k <= j

\* str::splitn(n, "::")
RECURSIVE SplitN(_, _)
SplitN(n, s) ==
  IF n <= 1 \/ FirstSep(s) = 0 THEN <<s>>
  ELSE <<SubSeq(s, 1, FirstSep(s) - 1)>>
         \o SplitN(n - 1, SubSeq(s, FirstSep(s) + 2, Len(s)))

V1 == <<"v", "1">>

\* a cursor parser that forgets the api cursor
ParseCursorNoApi(cursor) ==
  LET parts == SplitN(3, Unwrap(cursor))
  IN IF IsSome(cursor) /\ Len(parts) >= 2 /\ parts[1] = V1
     THEN [years_ago |-> UnwrapOr(ParseI32(parts[2]), 1), api_cursor |-> None]
     ELSE [years_ago |-> 1, api_cursor |-> None]

\* logic.rs l.86-101: (start_year, current_api_cursor)
ParseCursor(cursor) ==
  LET parts == SplitN(3, Unwrap(cursor))
  IN IF IsSome(cursor) /\ Len(parts) >= 2 /\ parts[1] = V1
     THEN [years_ago |-> UnwrapOr(ParseI32(parts[2]), 1),
           api_cursor |-> IF Len(parts) > 2 /\ parts[3] # <<>>
                          THEN Some(parts[3]) ELSE None]
     ELSE [years_ago |-> 1, api_cursor |-> None]

\* format!("v1::{}::{}", years_ago, ac) and format!("v1::{}::", years_ago)
FormatCursor(years_ago, api_cursor) ==
  V1 \o <<":", ":">> \o to_string(years_ago) \o <<":", ":">>
     \o UnwrapOr(api_cursor, <<>>)

\* if limit == 0 { DEFAULT_LIMIT } else { limit }
safe_limit(limit) == IF limit = 0 THEN OYA_DEFAULT_LIMIT ELSE limit

\* today.year() - years_ago, today being the requester's local date
target_year(now_utc, offset, years_ago) ==
  CivilFromDays(LocalDay(now_utc, offset)).year - years_ago


(***************************************************************************)
(* The handlers that call upstream with the service token.  rq is the      *)
(* request being served; done lists the requests answered so far.          *)
(***************************************************************************)
\* the offsets determine_timezone produces in the model: UTC and +09:00
TzOffsets == {0, 9 * SECS_PER_HOUR}

\* the failures of an upstream call: the status line its message carries
Unauthorized == "401 Unauthorized"
ServerError == "500 Internal Server Error"

\* error.rs: the variants of AppError a handler returns, with their message
\* (a sequence of strings: a message, or a message wrapping another)
AppError(variant, text) == [variant |-> variant, text |-> text]

\* err_msg.contains("ExpiredToken") || contains("401") || contains("Unauthorized")
IsUnauthorized(e) == e = Unauthorized

\* cache.rs cleanup task, as tokio::spawn leaves it
NewCleaner ==
  [pc |-> "spawned", now |-> 0, today |-> <<>>, deleted |-> FALSE,
   affected |-> 0]

\* what done keeps of an answered request
Summary(r) ==
  [feed |-> r.feed, did |-> r.did, limit |-> r.limit, cursor |-> r.cursor,
   offset |-> r.offset, now_utc |-> r.now_utc, status |-> r.status,
   error |-> r.error, items |-> r.acc, next |-> r.next, hit |-> r.hit,
   wrote |-> r.wrote, readOk |-> r.readOk, searches |-> r.searches, attempts |-> r.attempt,
   reauths |-> r.reauths, unauthorized |-> r.unauthorized,
   header |-> r.header, target |-> r.target,
   tz_get |-> r.tz_get, tz_set |-> r.tz_set, lookups |-> r.lookups]

\* the handler returns: Ok(Json(res)) or Err(AppError); handle_oneyearago
\* spawns the cleanup task when the result is Ok
Respond(r) ==
  /\ rq' = [r EXCEPT !.phase = "answered"]
  /\ done' = Append(done, Summary([r EXCEPT !.phase = "answered"]))
  /\ cleaners' = IF r.feed = "oneyearago" /\ r.status = 200
                 THEN Append(cleaners, NewCleaner) ELSE cleaners

\* error.rs into_response: the status of each variant
StatusOf(variant) ==
  CASE variant = "Auth" -> 401
    [] variant = "BadRequest" -> 400
    [] variant = "NotFound" -> 404
    [] variant = "Database" -> 500
    [] variant = "Internal" -> 500

Fail(r, variant, text) ==
  Respond([r EXCEPT !.status = StatusOf(variant),
                    !.error = Some(AppError(variant, text))])

\* an attempt (get_feed_skeleton, refresh_list) returns Err(e): the handler
\* is at its match on the result
AttemptFailed(r, e) ==
  [r EXCEPT !.phase = "failed",
            !.failure = IF r.attempt = 1 THEN Some(e) ELSE r.failure,
            !.raised = Some(e),
            !.unauthorized = r.unauthorized \/ IsUnauthorized(e)]

\* handle_oneyearago l.11-33: the authorization header, the DID of the JWT,
\* the token of the credential holder
OyaRequest(header, did, limitIn, cursor) ==
  LET r == NewRequest("oneyearago", header, did,
                      UnwrapOr(limitIn, OYA_DEFAULT_LIMIT), cursor)
  IN /\ rq.phase \in {"idle", "answered"}
     /\ IF header = "missing"
        THEN Fail(r, "Auth", <<"Missing or invalid authorization header">>)
        ELSE IF header = "invalid"
        THEN Fail(r, "Auth", <<"Invalid JWT">>)
        ELSE IF ~IsSome(service_auth.token)
        THEN Fail(r, "Internal", <<"Service not authenticated">>)
        ELSE /\ rq' = [r EXCEPT !.phase = "tz", !.token = service_auth.token]
             /\ UNCHANGED <<done, cleaners>>
     /\ UNCHANGED <<wall, cache, service_auth, auth_handle, getLog,
                  svcFrame, plCache>>

\* fetch_posts_from_past l.22-55: the timezone, from the cache or from
\* determine_timezone.  tz_get is what store.get_timezone returned
\* (Ok(Some), Ok(None) or Err), lookups counts the calls of
\* determine_timezone, tz_set is set when set_timezone returned Ok
OyaTimezone(answer, readOk, writeOk) ==
  LET key == tz_key(rq.did)
      cached == IF readOk THEN get_raw(cache, key, wall) ELSE None
      got == IF ~readOk THEN "error"
             ELSE IF IsSome(cached) THEN "hit" ELSE "miss"
  IN /\ rq.phase = "tz"
     /\ getLog' = IF readOk THEN GetRecord(cache, key, wall) ELSE getLog
     /\ IF IsSome(cached)
        THEN /\ rq' = [rq EXCEPT !.phase = "lookup",
                                 !.offset = Unwrap(ParseI32(Unwrap(cached))),
                                 !.now_utc = wall, !.tz_get = got]
             /\ cache' = cache
        ELSE IF answer.ok
        THEN /\ rq' = [rq EXCEPT !.phase = "lookup", !.offset = answer.offset,
                                 !.now_utc = wall, !.tz_get = got,
                                 !.lookups = @ + 1, !.tz_set = writeOk]
             /\ cache' = IF writeOk
                         THEN set_raw(cache, key, to_string(answer.offset),
                                      wall + TZ_TTL_SECS)
                         ELSE cache
        ELSE /\ rq' = [AttemptFailed(rq, answer.error)
                         EXCEPT !.tz_get = got, !.lookups = @ + 1]
             /\ cache' = cache
     /\ UNCHANGED <<wall, service_auth, auth_handle, cleaners, done,
                  svcFrame, plCache>>

\* the key of the feed cache entry of the request being served
RequestKey(r) ==
  feed_key(r.did, date_key(r.now_utc, r.offset), safe_limit(r.limit), r.cursor)

\* fetch_posts_from_past l.57-103: the feed cache lookup; on a hit the
\* cached result is returned, on a miss the cursor is parsed
OyaLookup(readOk) ==
  LET key == RequestKey(rq)
      cached == IF readOk THEN get_raw(cache, key, wall) ELSE None
      parsed == ParseCursor(rq.cursor)
  IN /\ rq.phase = "lookup"
     /\ getLog' = IF readOk THEN GetRecord(cache, key, wall) ELSE getLog
     /\ IF IsSome(cached)
        THEN Respond([rq EXCEPT !.hit = TRUE, !.status = 200, !.error = None,
                                !.readOk = TRUE,
                                !.acc = Unwrap(cached)[1],
                                !.next = Unwrap(cached)[2]])
        ELSE /\ rq' = [rq EXCEPT !.phase = "loop", !.readOk = readOk,
                                 !.years_ago = parsed.years_ago,
                                 !.api_cursor = parsed.api_cursor,
                                 !.acc = <<>>, !.calls = <<>>]
             /\ UNCHANGED <<done, cleaners>>
     /\ UNCHANGED <<wall, cache, service_auth, auth_handle,
                  svcFrame, plCache>>

\* the URIs of a page of n posts of a year
Page(year, page, n) == [k \in 1..n |-> <<year, page, k>>]

\* the loop of the waterfall is at its exit: the limit is filled, or the
\* target year is before the service launch
LimitFilled(r) == Len(r.acc) >= safe_limit(r.limit)

\* an end of history one year before the service launch
EndOfHistoryLate(r) ==
  target_year(r.now_utc, r.offset, r.years_ago) < MIN_SEARCH_YEAR - 1

EndOfHistory(r) ==
  target_year(r.now_utc, r.offset, r.years_ago) < MIN_SEARCH_YEAR

\* a waterfall that advances to the next year after every search
AfterSearchAlwaysAdvance(r, answer) ==
  [r EXCEPT !.acc = IF answer.ok
                    THEN r.acc \o Page(target_year(r.now_utc, r.offset, r.years_ago),
                                       Len(r.calls) + 1, answer.n)
                    ELSE r.acc,
            !.api_cursor = None,
            !.years_ago = r.years_ago + 1]

\* a waterfall that keeps the api cursor over a failed search
AfterSearchKeepsCursor(r, answer) ==
  IF answer.ok
  THEN [r EXCEPT !.acc = r.acc \o Page(target_year(r.now_utc, r.offset, r.years_ago),
                                       Len(r.calls) + 1, answer.n),
                 !.api_cursor = answer.cursor,
                 !.years_ago = IF IsSome(answer.cursor) THEN r.years_ago
                               ELSE r.years_ago + 1]
  ELSE [r EXCEPT !.years_ago = r.years_ago + 1,
                 !.unauthorized = r.unauthorized \/ IsUnauthorized(answer.error)]

\* logic.rs l.156-174: the two arms of the match on the search result
AfterSearch(r, answer) ==
  IF answer.ok
  THEN [r EXCEPT !.acc = r.acc \o Page(target_year(r.now_utc, r.offset, r.years_ago),
                                       Len(r.calls) + 1, answer.n),
                 !.api_cursor = answer.cursor,
                 !.years_ago = IF IsSome(answer.cursor) THEN r.years_ago
                               ELSE r.years_ago + 1]
  ELSE [r EXCEPT !.api_cursor = None, !.years_ago = r.years_ago + 1,
                 !.unauthorized = r.unauthorized \/ IsUnauthorized(answer.error)]

\* logic.rs l.144: safe_limit - feed_items.len()
fetch_limit(r) == safe_limit(r.limit) - Len(r.acc)

\* what calls keeps of a search: its arguments and its result
CallRecord(r, answer) ==
  [years_ago |-> r.years_ago,
   target_year |-> target_year(r.now_utc, r.offset, r.years_ago),
   api_cursor |-> r.api_cursor, fetch_limit |-> fetch_limit(r),
   before |-> Len(r.acc), answer |-> answer]

\* logic.rs l.104-175: one iteration of the loop that calls search_posts
OyaSearch(answer) ==
  /\ rq.phase = "loop"
  /\ ~LimitFilled(rq) /\ ~EndOfHistory(rq)
  /\ answer.ok => answer.n <= fetch_limit(rq)
  /\ rq' = [AfterSearch(rq, answer) EXCEPT
              !.calls = Append(rq.calls, CallRecord(rq, answer)),
              !.searches = rq.searches + 1]
  /\ UNCHANGED <<wall, cache, service_auth, auth_handle, cleaners, done, getLog,
                  svcFrame, plCache>>

\* logic.rs l.105-120: the value the loop breaks with
next_cursor_string(r) ==
  IF LimitFilled(r) THEN Some(FormatCursor(r.years_ago, r.api_cursor)) ELSE None

\* a waterfall that stores its result only if no search failed
OyaBreakUnlessFailed(writeOk) ==
  LET next == next_cursor_string(rq)
      failed == \E i \in 1..Len(rq.calls) : ~rq.calls[i].answer.ok
  IN /\ rq.phase = "loop"
     /\ LimitFilled(rq) \/ EndOfHistory(rq)
     /\ cache' = IF writeOk /\ ~failed
                 THEN set_raw(cache, RequestKey(rq), <<rq.acc, next>>,
                              today_end_utc(rq.now_utc, rq.offset))
                 ELSE cache
     /\ Respond([rq EXCEPT !.status = 200, !.error = None, !.next = next,
                           !.wrote = writeOk])
     /\ UNCHANGED <<wall, service_auth, auth_handle, getLog,
                  svcFrame, plCache>>

\* logic.rs l.105-120 and l.177-205: the loop exits, the result is written
\* to the cache, get_feed_skeleton returns Ok
OyaBreak(writeOk) ==
  LET next == next_cursor_string(rq)
  IN /\ rq.phase = "loop"
     /\ LimitFilled(rq) \/ EndOfHistory(rq)
     /\ cache' = IF writeOk
                 THEN set_raw(cache, RequestKey(rq), <<rq.acc, next>>,
                              today_end_utc(rq.now_utc, rq.offset))
                 ELSE cache
     /\ Respond([rq EXCEPT !.status = 200, !.error = None, !.next = next,
                           !.wrote = writeOk])
     /\ UNCHANGED <<wall, service_auth, auth_handle, getLog,
                  svcFrame, plCache>>


(***************************************************************************)
(* Re-authentication and retry: the match on the result of the first       *)
(* attempt in handle_todoapp, handle_oneyearago and privatelist_refresh.   *)
(***************************************************************************)
SERVICE_DID == "did:plc:service"

\* where an attempt of each handler starts
AttemptStart(feed) == IF feed = "oneyearago" THEN "tz" ELSE "call"

\* the message of the error a failed retry is wrapped in
RetryFailedText(feed) ==
  IF feed = "refresh" THEN "Retry refresh failed" ELSE "Retry failed"

\* Err(e) of the first attempt: 401, Unauthorized or ExpiredToken in its
\* text leads to authenticate when handle and password are set; Err(e2) of
\* the retry is returned
OnAttemptError ==
  /\ rq.phase = "failed"
  /\ IF rq.attempt = 2
     THEN Fail(rq, "Internal", <<RetryFailedText(rq.feed), Unwrap(rq.raised)>>)
     ELSE IF ~IsUnauthorized(Unwrap(rq.raised))
     THEN Fail(rq, "Internal", <<Unwrap(rq.raised)>>)
     ELSE IF auth_handle = <<>>
     THEN Fail(rq, "BadRequest", <<"Credentials missing for refresh">>)
     ELSE rq' = [rq EXCEPT !.phase = "reauth"]
          /\ UNCHANGED <<done, cleaners>>
  /\ UNCHANGED <<wall, cache, service_auth, auth_handle, getLog,
                  svcFrame, plCache>>

\* a fresh token
NewToken ==
  IF IsSome(service_auth.token) THEN Unwrap(service_auth.token) + 1 ELSE 1

\* a failed re-authentication leaves the credential holder alone
ReauthFailed == service_auth

\* todoapp::authenticate(handle, password) returns; on Ok the pair is
\* installed under the write lock and the call is made again with the new
\* token
Reauthenticate(ok) ==
  /\ rq.phase = "reauth"
  /\ IF ok
     THEN /\ service_auth' = [token |-> Some(NewToken), did |-> Some(SERVICE_DID)]
          /\ rq' = [rq EXCEPT !.phase = AttemptStart(rq.feed), !.attempt = 2,
                              !.reauths = rq.reauths + 1,
                              !.token = Some(NewToken)]
          /\ UNCHANGED <<done, cleaners>>
     ELSE /\ service_auth' = ReauthFailed
          /\ Fail([rq EXCEPT !.reauths = rq.reauths + 1], "Internal",
                  <<"Re-authentication failed">>)
  /\ UNCHANGED <<wall, cache, auth_handle, getLog,
                  svcFrame, plCache>>

\* handle_todoapp l.10-25
TodoRequest(header) ==
  LET r == NewRequest("todoapp", header, DID_A, 0, None)
  IN /\ rq.phase \in {"idle", "answered"}
     /\ IF header = "missing"
        THEN Fail(r, "Auth", <<"Missing or invalid authorization header">>)
        ELSE IF ~IsSome(service_auth.token)
        THEN Fail(r, "Internal", <<"Service not authenticated">>)
        ELSE /\ rq' = [r EXCEPT !.phase = "call", !.token = service_auth.token]
             /\ UNCHANGED <<done, cleaners>>
     /\ UNCHANGED <<wall, cache, service_auth, auth_handle, getLog,
                  svcFrame, plCache>>

\* todoapp::get_feed_skeleton: the DID of the JWT, then the TODO and the
\* DONE search joined; the first Err of the two is returned
TodoAttempt(todos, dones) ==
  /\ rq.phase = "call" /\ rq.feed = "todoapp"
  /\ IF rq.header = "invalid"
     THEN rq' = AttemptFailed(rq, "Failed to extract DID from auth")
          /\ UNCHANGED <<done, cleaners>>
     ELSE IF todos # "ok"
     THEN rq' = AttemptFailed([rq EXCEPT !.searches = rq.searches + 2,
                                 !.unauthorized = rq.unauthorized
                                    \/ IsUnauthorized(dones)], todos)
          /\ UNCHANGED <<done, cleaners>>
     ELSE IF dones # "ok"
     THEN rq' = AttemptFailed([rq EXCEPT !.searches = rq.searches + 2], dones)
          /\ UNCHANGED <<done, cleaners>>
     ELSE Respond([rq EXCEPT !.searches = rq.searches + 2, !.status = 200,
                             !.error = None])
  /\ UNCHANGED <<wall, cache, service_auth, auth_handle, getLog,
                  svcFrame, plCache>>


\* privatelist_refresh l.129-137 (the session of the user is verified by
\* the extractor before the handler runs)
RefreshRequest(did) ==
  LET r == NewRequest("refresh", "valid", did, 0, None)
  IN /\ rq.phase \in {"idle", "answered"}
     /\ IF ~IsSome(service_auth.token)
        THEN Fail(r, "BadRequest", <<"Service not authenticated">>)
        ELSE /\ rq' = [r EXCEPT !.phase = "call", !.token = service_auth.token]
             /\ UNCHANGED <<done, cleaners>>
     /\ UNCHANGED <<wall, cache, service_auth, auth_handle, getLog,
                  svcFrame, plCache>>

\* refresh_list l.21: the targets of the user
RefreshList(order) ==
  /\ rq.phase = "call" /\ rq.feed = "refresh"
  /\ order \in list_users(plMembers, rq.did)
  /\ rq' = [rq EXCEPT !.phase = "targets", !.targets = order]
  /\ UNCHANGED <<wall, cache, service_auth, auth_handle, cleaners, done, getLog,
                  svcFrame, plCache>>

\* a mutant of cache_post: INSERT OR IGNORE
cache_post_keep(table, uri, cid, author_did, indexed_at) ==
  IF \E r \in table : r.uri = uri THEN table
  ELSE table \cup {[uri |-> uri, cid |-> cid, author_did |-> author_did,
                    indexed_at |-> indexed_at]}

\* db::cache_post: INSERT OR REPLACE INTO private_list_post_cache
cache_post(table, uri, cid, author_did, indexed_at) ==
  {r \in table : r.uri # uri}
    \cup {[uri |-> uri, cid |-> cid, author_did |-> author_did,
           indexed_at |-> indexed_at]}

\* an indexedAt of the search API: an RFC 3339 string by its fields (the
\* seconds of its date and time, its fraction in nanoseconds, its offset),
\* or a string that is no RFC 3339 timestamp
Rfc3339(secs, nanos, offset) ==
  [valid |-> TRUE, secs |-> secs, nanos |-> nanos, offset |-> offset]
NoTimestamp == [valid |-> FALSE, secs |-> 0, nanos |-> 0, offset |-> 0]

\* DateTime::parse_from_rfc3339(..).timestamp_micros()
timestamp_micros(t) ==
  (t.secs - t.offset) * MICROS_PER_SEC + t.nanos \div 1000

\* a PostView of the target's post rkey
PostView(target, rkey, cid, indexed_at) ==
  [uri |-> PostUri(target, POST_COLLECTION, rkey), cid |-> cid,
   indexed_at |-> indexed_at]

\* the results of the search of a target: Ok(posts) or Err(e)
Found(posts) == [ok |-> TRUE, posts |-> posts, error |-> ""]
FoundErr(e) == [ok |-> FALSE, posts |-> <<>>, error |-> e]

\* refresh_list l.33-41: the posts of a response are cached one by one
\* until the indexedAt of one does not parse
RECURSIVE CachePosts(_, _, _)
CachePosts(table, target, posts) ==
  IF posts = <<>> THEN [table |-> table, ok |-> TRUE]
  ELSE IF ~Head(posts).indexed_at.valid THEN [table |-> table, ok |-> FALSE]
  ELSE CachePosts(cache_post(table, Head(posts).uri, Head(posts).cid, target,
                             timestamp_micros(Head(posts).indexed_at)),
                  target, Tail(posts))

\* the target refresh_list searches next
NextTarget == IF rq.targets = <<>> THEN "" ELSE Head(rq.targets)

\* refresh_list l.23-42: the search of the next target and the caching of
\* its posts
RefreshSearch(answer) ==
  LET target == NextTarget
      cached == CachePosts(plCache, target, answer.posts)
      searched == [rq EXCEPT !.searches = rq.searches + 1,
                             !.calls = Append(rq.calls,
                                              [target |-> target,
                                               posts |-> answer.posts])]
  IN /\ rq.phase = "targets" /\ rq.targets # <<>>
     /\ IF ~answer.ok
        THEN /\ rq' = AttemptFailed(searched, answer.error)
             /\ plCache' = plCache
        ELSE IF ~cached.ok
        THEN /\ rq' = AttemptFailed(searched, "Failed to parse indexed_at")
             /\ plCache' = cached.table
        ELSE /\ rq' = [searched EXCEPT !.targets = Tail(rq.targets)]
             /\ plCache' = cached.table
     /\ UNCHANGED <<wall, cache, service_auth, auth_handle, cleaners, done, getLog,
                  svcFrame>>

\* refresh_list l.44 and privatelist_refresh l.149: Ok(StatusCode::OK)
RefreshDone ==
  /\ rq.phase = "targets" /\ rq.targets = <<>>
  /\ Respond([rq EXCEPT !.status = 200, !.error = None])
  /\ UNCHANGED <<wall, cache, service_auth, auth_handle, getLog,
                  svcFrame, plCache>>

(***************************************************************************)
(* Time, and the cleanup tasks of the cache (cache.rs cleanup_at).         *)
(***************************************************************************)
\* the clock advances in steps of six hours
TickSecs == 6 * SECS_PER_HOUR
MaxTicks == 4

Tick ==
  /\ wall < StartSecs + MaxTicks * TickSecs
  /\ wall' = wall + TickSecs
  /\ UNCHANGED <<cache, service_auth, auth_handle, rq, cleaners, done, getLog,
                  svcFrame, plCache>>

\* FixedOffset::east_opt(9 * 3600)
JST_OFFSET == 9 * SECS_PER_HOUR

\* now_jst.hour()
JstHour(t) == ((t + JST_OFFSET) % SECS_PER_DAY) \div SECS_PER_HOUR

\* now_jst.format("%y%m%d")
JstToday(t) == Yymmdd(LocalDay(t, JST_OFFSET))

STATUS_KEY ==
  <<"i", "n", "t", "e", "r", "n", "a", "l", ":", "l", "a", "s", "t", "_",
    "c", "l", "e", "a", "n", "u", "p", "_", "d", "a", "t", "e">>

\* now + chrono::Duration::days(365 * 10)
FarFuture(t) == t + 365 * 10 * SECS_PER_DAY

\* cleanup_at l.203-227: the time of the invocation, the hour guard and the
\* check of the day's mark
CleanupCheck(i) ==
  LET t == wall
      last == get_raw(cache, STATUS_KEY, wall)
  IN /\ i \in 1..Len(cleaners) /\ cleaners[i].pc = "spawned"
     /\ IF JstHour(t) < 4
        THEN /\ cleaners' = [cleaners EXCEPT ![i].pc = "end", ![i].now = t]
             /\ getLog' = getLog
        ELSE /\ getLog' = GetRecord(cache, STATUS_KEY, wall)
             /\ cleaners' =
                  [cleaners EXCEPT ![i].now = t, ![i].today = JstToday(t),
                     ![i].pc = IF last = Some(JstToday(t)) THEN "end"
                               ELSE "checked"]
     /\ UNCHANGED <<wall, cache, service_auth, auth_handle, rq, done,
                  svcFrame, plCache>>

\* the DELETE with the boundary left in the table
CleanupDeleteStrict(i) ==
  /\ i \in 1..Len(cleaners) /\ cleaners[i].pc = "checked"
  /\ cache' = {r \in cache : ~(r.expires_at < cleaners[i].now)}
  /\ cleaners' = [cleaners EXCEPT ![i].pc = "deleted", ![i].deleted = TRUE,
                    ![i].affected = Cardinality(cache \ cache')]
  /\ UNCHANGED <<wall, service_auth, auth_handle, rq, done, getLog,
                  svcFrame, plCache>>

\* cleanup_at l.230-237: DELETE FROM cache WHERE expires_at <= ?
CleanupDelete(i) ==
  /\ i \in 1..Len(cleaners) /\ cleaners[i].pc = "checked"
  /\ cache' = {r \in cache : ~(r.expires_at <= cleaners[i].now)}
  /\ cleaners' = [cleaners EXCEPT ![i].pc = "deleted", ![i].deleted = TRUE,
                    ![i].affected = Cardinality(cache \ cache')]
  /\ UNCHANGED <<wall, service_auth, auth_handle, rq, done, getLog,
                  svcFrame, plCache>>

\* cleanup_at l.240-243: the mark of the day is stored
CleanupMark(i) ==
  /\ i \in 1..Len(cleaners) /\ cleaners[i].pc = "deleted"
  /\ cache' = set_raw(cache, STATUS_KEY, cleaners[i].today,
                      FarFuture(cleaners[i].now))
  /\ cleaners' = [cleaners EXCEPT ![i].pc = "end"]
  /\ UNCHANGED <<wall, service_auth, auth_handle, rq, done, getLog,
                  svcFrame, plCache>>


(***************************************************************************)
(* The waterfall specification: one oneyearago request on an empty cache,  *)
(* for every cursor, limit, timezone and sequence of search results of     *)
(* the model.                                                              *)
(***************************************************************************)
\* a page of search_posts holds at most MaxPosts posts, and upstream hands
\* out an api cursor at most MaxCalls times in a row
MaxPosts == 2
MaxCalls == 2

\* the api cursors: C_IN comes in with a request, C_OUT is handed out by
\* upstream
C_IN == <<"c">>
C_OUT == <<"d">>

SEP == <<":", ":">>

\* the cursors a client may send
OyaCursors ==
  { None,
    Some(V1 \o SEP \o <<"1">> \o SEP \o C_IN),
    Some(V1 \o SEP \o <<"2">> \o SEP),
    Some(V1 \o SEP \o <<"2">> \o SEP \o C_IN),
    Some(V1 \o SEP \o <<"x">> \o SEP \o C_IN),
    Some(V1 \o SEP \o <<"2">>),
    Some(<<"g">>) }

\* the results of search_posts: Ok((posts, cursor)) with n posts, or Err(e)
SearchOk(n, cursor) == [ok |-> TRUE, n |-> n, cursor |-> cursor, error |-> ""]
SearchErr(e) == [ok |-> FALSE, n |-> 0, cursor |-> None, error |-> e]

SearchAnswers ==
  {SearchOk(n, c) : n \in 0..MaxPosts, c \in {None, Some(C_OUT)}}
    \cup {SearchErr(e) : e \in {Unauthorized, ServerError}}

\* the results of determine_timezone
TzOk(offset) == [ok |-> TRUE, offset |-> offset, error |-> ""]
TzErr(e) == [ok |-> FALSE, offset |-> 0, error |-> e]

\* the consumer, the read handlers and the indexes are not involved
OthersIdle ==
  /\ upstream = <<>>
  /\ now = 1
  /\ faults = 0
  /\ pc = "off"
  /\ sleepSecs = 0
  /\ lastFailure = "none"
  /\ initial_cursor = None /\ cursor_us = None /\ current_cursor = None
  /\ subCursor = None /\ subPos = 0 /\ subAlive = FALSE
  /\ inflight = 0 /\ new_cursor = None
  /\ cursorRow = None
  /\ hwIndex = {} /\ fbIndex = {}
  /\ plCache = {} /\ resp = NoResponse
  /\ analyses = <<>>
  /\ handlers = <<>>
  /\ auth_guard = Unlocked
  /\ passed = {} /\ passedRun = {} /\ passedTwice = {}
  /\ owed = {}
  /\ subsOpened = "none"
  /\ dbFault = FALSE
  /\ firstInsert = [k \in {"hw", "fb"} |-> [i \in 1..MaxEvents |-> None]]
  /\ reinserted = {}
  /\ storedWith = [i \in 1..MaxEvents |-> <<>>]

\* main.rs l.95-109 has authenticated: the holder has a token
Authenticated ==
  /\ auth_handle = <<"h">>
  /\ service_auth = [token |-> Some(1), did |-> Some(SERVICE_DID)]

InitWaterfall ==
  /\ OthersIdle
  /\ plMembers = EmptyBag
  /\ Authenticated
  /\ wall = StartSecs
  /\ cache = {}
  /\ rq = NoRequest
  /\ cleaners = <<>>
  /\ done = <<>>
  /\ getLog = NoGet

\* (the waterfall reads the clock once, l.43: time passes before the request)
NextWaterfall ==
  \/ rq.phase = "idle" /\ Tick
  \/ \E limitIn \in {Some(0), Some(1), Some(2)}, cursor \in OyaCursors :
       done = <<>> /\ OyaRequest("valid", DID_A, limitIn, cursor)
  \/ \E offset \in TzOffsets : OyaTimezone(TzOk(offset), TRUE, TRUE)
  \/ OyaLookup(TRUE)
  \/ \E answer \in SearchAnswers :
       /\ IsSome(answer.cursor) => Len(rq.calls) < MaxCalls
       /\ OyaSearch(answer)
  \/ OyaBreak(TRUE)

SpecWaterfall == InitWaterfall /\ [][NextWaterfall]_vars


(***************************************************************************)
(* Claims about the waterfall and the cursor grammar.                      *)
(***************************************************************************)
\* the number of posts the first i - 1 searches of the request returned
RECURSIVE Gathered(_, _)
Gathered(calls, i) ==
  IF i <= 1 THEN 0
  ELSE Gathered(calls, i - 1)
         + (IF calls[i - 1].answer.ok THEN calls[i - 1].answer.n ELSE 0)

\* the year of the requester's local today
TodayYear(r) == CivilFromDays(LocalDay(r.now_utc, r.offset)).year

\* the request being served ran (or is running) the waterfall
InWaterfall == rq.feed = "oneyearago" /\ rq.phase \in {"loop", "answered"}
                 /\ rq.status \in {0, 200} /\ ~rq.hit

\* C11: a oneyearago request without cursor that misses the cache searches
\* year by year from years_ago = 1, each search asking for the limit minus
\* the items gathered so far; the items are the pages in the order of the
\* searches, so a nearer year's items all precede an older year's; the next
\* search is for the next year exactly when the search returned no api
\* cursor, and for the same year with the returned api cursor otherwise;
\* when the limit is reached as year k is exhausted the next cursor is
\* v1::{k+1}::
C11_WaterfallYearByYear ==
  (InWaterfall /\ rq.cursor = None) =>
    LET calls == rq.calls
        limit == IF rq.limit = 0 THEN 30 ELSE rq.limit
        last == calls[Len(calls)]
    IN /\ calls # <<>> => calls[1].years_ago = 1 /\ calls[1].api_cursor = None
       /\ \A i \in 1..Len(calls) :
            /\ calls[i].fetch_limit = limit - Gathered(calls, i)
            /\ calls[i].fetch_limit > 0
            /\ calls[i].target_year = TodayYear(rq) - calls[i].years_ago
       /\ \A i \in 1..(Len(calls) - 1) :
            IF IsSome(calls[i].answer.cursor)
            THEN /\ calls[i + 1].years_ago = calls[i].years_ago
                 /\ calls[i + 1].api_cursor = calls[i].answer.cursor
            ELSE /\ calls[i + 1].years_ago = calls[i].years_ago + 1
                 /\ calls[i + 1].api_cursor = None
       /\ Len(rq.acc) = Gathered(calls, Len(calls) + 1)
       /\ \A a, b \in 1..Len(rq.acc) : a < b => rq.acc[a][1] >= rq.acc[b][1]
       /\ \A a \in 1..Len(rq.acc) :
            \E i \in 1..Len(calls) :
              calls[i].answer.ok /\ rq.acc[a][1] = calls[i].target_year
                /\ rq.acc[a][2] = i
       /\ (rq.phase = "answered" /\ calls # <<>> /\ Len(rq.acc) >= limit
             /\ ~IsSome(last.answer.cursor))
            => rq.next = Some(<<"v", "1", ":", ":">>
                                \o to_string(last.years_ago + 1)
                                \o <<":", ":">>)

\* one post of a year ago, one of two years ago, limit 2: v1::3::
C11_Witness ==
  /\ InWaterfall /\ rq.phase = "answered" /\ rq.cursor = None /\ rq.limit = 2
  /\ Len(rq.calls) = 2
  /\ rq.calls[1].answer.n = 1 /\ rq.calls[1].years_ago = 1
  /\ rq.calls[2].answer.n = 1 /\ rq.calls[2].years_ago = 2
  /\ rq.acc = <<<<2024, 1, 1>>, <<2023, 2, 1>>>>
  /\ rq.next = Some(<<"v", "1", ":", ":", "3", ":", ":">>)


\* the search returned an empty page and no api cursor
EmptyResult(call) ==
  call.answer.ok /\ call.answer.n = 0 /\ ~IsSome(call.answer.cursor)

\* C12: no search is made for a target year before 2023; a waterfall that
\* ends before the limit is filled has reached today.year - years_ago < 2023
\* and answers the items gathered so far with no next cursor; on 2025-01-01
\* UTC with empty results: exactly two searches (2024 and 2023), no items,
\* no cursor
C12_NeverBeforeLaunch ==
  InWaterfall =>
    LET limit == IF rq.limit = 0 THEN 30 ELSE rq.limit
    IN /\ \A i \in 1..Len(rq.calls) : rq.calls[i].target_year >= 2023
       /\ (rq.phase = "answered" /\ Len(rq.acc) < limit) =>
            /\ TodayYear(rq) - rq.years_ago < 2023
            /\ rq.next = None
            /\ Len(rq.acc) = Gathered(rq.calls, Len(rq.calls) + 1)
       /\ (rq.phase = "answered" /\ rq.cursor = None /\ rq.offset = 0
             /\ Yymmdd(LocalDay(rq.now_utc, 0)) = <<"2", "5", "0", "1", "0", "1">>
             /\ \A i \in 1..Len(rq.calls) : EmptyResult(rq.calls[i])) =>
            /\ Len(rq.calls) = 2
            /\ rq.calls[1].target_year = 2024 /\ rq.calls[2].target_year = 2023
            /\ rq.acc = <<>> /\ rq.next = None

\* 2025-01-01 UTC, two empty searches, the answer is empty without cursor
C12_Witness ==
  /\ InWaterfall /\ rq.phase = "answered" /\ rq.cursor = None /\ rq.offset = 0
  /\ Yymmdd(LocalDay(rq.now_utc, 0)) = <<"2", "5", "0", "1", "0", "1">>
  /\ Len(rq.calls) = 2
  /\ \A i \in 1..2 : EmptyResult(rq.calls[i])
  /\ rq.acc = <<>> /\ rq.next = None /\ rq.status = 200


\* the well-formed cursors of the model: <<cursor, n, c>>
WellFormedCursors ==
  { <<Some(<<"v", "1", ":", ":", "1", ":", ":", "c">>), 1, Some(<<"c">>)>>,
    <<Some(<<"v", "1", ":", ":", "2", ":", ":">>), 2, None>>,
    <<Some(<<"v", "1", ":", ":", "2", ":", ":", "c">>), 2, Some(<<"c">>)>> }

\* C13: a request with cursor v1::{n}::{c} makes its first search for
\* years_ago = n with api cursor c (none when c is empty), so no nearer year
\* is searched; when the limit is filled while the last search still
\* reported an api cursor c', the next cursor is v1::{n}::{c'} for the year n
\* of that search; and a next cursor handed out parses back to the year and
\* api cursor the waterfall stopped at
C13_CursorRoundTrip ==
  InWaterfall =>
    LET calls == rq.calls
        limit == IF rq.limit = 0 THEN 30 ELSE rq.limit
        last == calls[Len(calls)]
    IN /\ \A case \in WellFormedCursors :
            (rq.cursor = case[1] /\ calls # <<>>) =>
              /\ calls[1].years_ago = case[2]
              /\ calls[1].api_cursor = case[3]
              /\ \A i \in 1..Len(calls) : calls[i].years_ago >= case[2]
       /\ (rq.phase = "answered" /\ calls # <<>> /\ Len(rq.acc) >= limit
             /\ IsSome(last.answer.cursor)) =>
            rq.next = Some(<<"v", "1", ":", ":">> \o to_string(last.years_ago)
                             \o <<":", ":">> \o Unwrap(last.answer.cursor))
       /\ (rq.phase = "answered" /\ IsSome(rq.next)) =>
            ParseCursor(rq.next) = [years_ago |-> rq.years_ago,
                                    api_cursor |-> rq.api_cursor]

\* v1::1::c, one search with api cursor c returning one post and api cursor
\* d, limit 1: the next cursor is v1::1::d
C13_Witness ==
  /\ InWaterfall /\ rq.phase = "answered" /\ rq.limit = 1
  /\ rq.cursor = Some(<<"v", "1", ":", ":", "1", ":", ":", "c">>)
  /\ Len(rq.calls) = 1
  /\ rq.calls[1].years_ago = 1 /\ rq.calls[1].api_cursor = Some(<<"c">>)
  /\ rq.calls[1].answer.n = 1 /\ rq.calls[1].answer.cursor = Some(<<"d">>)
  /\ rq.next = Some(<<"v", "1", ":", ":", "1", ":", ":", "d">>)


\* s is an integer: an optional sign and one or more digits
IsInteger(s) ==
  LET body == IF s # <<>> /\ s[1] \in {"+", "-"} THEN Tail(s) ELSE s
  IN body # <<>> /\ \A k \in 1..Len(body) : IsDigit(body[k])

\* the cursor is v1::<integer years_ago>::<api cursor>
IsWellFormed(cursor) ==
  /\ IsSome(cursor)
  /\ LET s == Unwrap(cursor)
     IN /\ Len(s) >= 4 /\ SubSeq(s, 1, 4) = <<"v", "1", ":", ":">>
        /\ \E k \in 5..(Len(s) - 1) :
             /\ s[k] = ":" /\ s[k + 1] = ":"
             /\ IsInteger(SubSeq(s, 5, k - 1))

\* C14: a request whose cursor is missing or is not of the form
\* v1::<integer>::<api cursor> starts the waterfall at years_ago = 1 with
\* no api cursor
C14_MalformedCursorResets ==
  (InWaterfall /\ ~IsWellFormed(rq.cursor) /\ rq.calls # <<>>) =>
    /\ rq.calls[1].years_ago = 1
    /\ rq.calls[1].api_cursor = None


(***************************************************************************)
(* The cache specification: a few oneyearago requests in a row, the clock  *)
(* advancing between them, cache statements failing; the cleanup tasks     *)
(* the requests spawn do not get to run.                                   *)
(***************************************************************************)
MaxRequests == 2

\* the requests of the model: <<did, limit parameter, cursor>>
CacheRequests ==
  { <<DID_A, None, None>>,
    <<DID_A, Some(0), None>>,
    <<DID_A, Some(1), None>>,
    <<DID_B, Some(1), None>>,
    <<DID_A, Some(1), Some(V1 \o SEP \o <<"2">> \o SEP)>> }

InitCache == InitWaterfall

\* no request is being served
Between == rq.phase \in {"idle", "answered"}

\* (the steps of a request are not interleaved with the clock)
NextCache ==
  \/ Between /\ Tick
  \/ \E q \in CacheRequests :
       Len(done) < MaxRequests /\ OyaRequest("valid", q[1], q[2], q[3])
  \/ \E offset \in TzOffsets : OyaTimezone(TzOk(offset), TRUE, TRUE)
  \/ \E readOk \in BOOLEAN : OyaLookup(readOk)
  \/ \E n \in 0..1 : OyaSearch(SearchOk(n, None))
  \/ \E writeOk \in BOOLEAN : OyaBreak(writeOk)

SpecCache == InitCache /\ [][NextCache]_vars

(***************************************************************************)
(* The cleanup specification: oneyearago requests in a row, the clock      *)
(* advancing between them, the cleanup tasks they spawn running            *)
(* concurrently with each other.                                           *)
(***************************************************************************)
InitCleanup == InitWaterfall

\* (the steps of a request are not interleaved with the clock and the
\* cleanup tasks)
NextCleanup ==
  \/ Between /\ Tick
  \/ \E did \in {DID_A, DID_B} :
       Len(done) < MaxRequests /\ OyaRequest("valid", did, Some(1), None)
  \/ \E offset \in TzOffsets : OyaTimezone(TzOk(offset), TRUE, TRUE)
  \/ OyaLookup(TRUE)
  \/ \E n \in 0..1 : OyaSearch(SearchOk(n, None))
  \/ OyaBreak(TRUE)
  \/ \E i \in 1..MaxRequests : Between /\ CleanupCheck(i)
  \/ \E i \in 1..MaxRequests : Between /\ CleanupDelete(i)
  \/ \E i \in 1..MaxRequests : Between /\ CleanupMark(i)

SpecCleanup == InitCleanup /\ [][NextCleanup]_vars


(***************************************************************************)
(* Claims about the cache.                                                 *)
(***************************************************************************)
\* the requester-local date of an answered request
LocalDate(d) == Yymmdd(LocalDay(d.now_utc, d.offset))

\* two answered requests agree on did, local date, timezone offset, limit
\* in effect (logic.rs l.46: 0 is the default limit) and cursor
SameRequest(a, b) ==
  /\ a.did = b.did /\ LocalDate(a) = LocalDate(b) /\ a.offset = b.offset
  /\ safe_limit(a.limit) = safe_limit(b.limit) /\ a.cursor = b.cursor

\* the answered request ran the waterfall to its end after a cache miss
CompletedOnMiss(d) == d.feed = "oneyearago" /\ d.status = 200 /\ ~d.hit

\* the request answered in this step
Answered == done'[Len(done')]

LastWriter(i) ==
  /\ CompletedOnMiss(done[i]) /\ done[i].wrote
  /\ RequestKey(done[i]) = RequestKey(Answered)
  /\ \A k \in (i + 1)..Len(done) :
       ~(CompletedOnMiss(done[k]) /\ done[k].wrote
           /\ RequestKey(done[k]) = RequestKey(Answered))

C17_ExpiredInvisible ==
  /\ ~IsSome(getLog.row) => getLog.ret = None
  /\ IsSome(getLog.row) =>
       IF Unwrap(getLog.row).expires_at <= getLog.at
       THEN getLog.ret = None
       ELSE getLog.ret = Some(Unwrap(getLog.row).value)

\* a get found, still in the table after a cleanup had run, a row that
\* expires at this very instant, and returned nothing
C17_Witness ==
  /\ IsSome(getLog.row)
  /\ Unwrap(getLog.row).expires_at = getLog.at
  /\ getLog.ret = None
  /\ \E i \in 1..Len(cleaners) : cleaners[i].deleted


\* C18: among the cleanup invocations whose time falls in the same day at
\* +9 h, at most one executes the DELETE of expired rows
C18_OneDeletePerDay ==
  \A i, j \in 1..Len(cleaners) :
    (cleaners[i].deleted /\ cleaners[j].deleted
       /\ cleaners[i].today = cleaners[j].today) => i = j



(***************************************************************************)
(* The cache key specification: oneyearago requests in a row that differ   *)
(* in did, limit, cursor, timezone or time.                                *)
(***************************************************************************)
\* two api cursors of the search of two years ago
API_CURSOR_1 ==
  <<"6", "6", "9", "d", "8", "4", "4", "b", "7", "e", "d", "f", "0", "9", "3", "a">>
API_CURSOR_2 ==
  <<"c", "c", "6", "7", "9", "d", "3", "d", "e", "b", "1", "d", "4", "2", "9", "0">>

KeyCursor(api_cursor) == Some(V1 \o SEP \o <<"2">> \o SEP \o api_cursor)

\* did, limit and cursor of the requests
KeyRequests ==
  { <<DID_A, None, None>>,
    <<DID_A, Some(1), None>>,
    <<DID_A, Some(1), KeyCursor(API_CURSOR_1)>>,
    <<DID_A, Some(1), KeyCursor(API_CURSOR_2)>>,
    <<DID_A, Some(2), KeyCursor(API_CURSOR_1)>>,
    <<DID_B, Some(1), KeyCursor(API_CURSOR_1)>> }

InitKeys == InitWaterfall

NextKeys ==
  \/ Between /\ Tick
  \/ \E q \in KeyRequests :
       Len(done) < MaxRequests /\ OyaRequest("valid", q[1], q[2], q[3])
  \/ \E offset \in TzOffsets : OyaTimezone(TzOk(offset), TRUE, TRUE)
  \/ OyaLookup(TRUE)
  \/ \E n \in 0..1 : OyaSearch(SearchOk(n, None))
  \/ OyaBreak(TRUE)

SpecKeys == InitKeys /\ [][NextKeys]_vars

\* C16: two oneyearago requests use the same feed cache entry only if they
\* agree on did, local date, timezone offset, limit and cursor; a request
\* answered from the cache follows a request that agrees with it and
\* stored its result
C16_SameEntryOnlyIfAgree ==
  \A i, j \in 1..Len(done) :
    /\ RequestKey(done[i]) = RequestKey(done[j]) => SameRequest(done[i], done[j])
    /\ (i < j /\ done[j].hit) =>
         \E k \in 1..(j - 1) : CompletedOnMiss(done[k]) /\ SameRequest(done[k], done[j])


(***************************************************************************)
(* The re-authentication specification: todoapp, oneyearago and refresh    *)
(* requests in a row, upstream answering 401 or 500 to any call, and       *)
(* authenticate succeeding or failing.                                     *)
(***************************************************************************)
MaxAuthRequests == 2

\* main.rs l.22-29 and l.95-109: the handle may be unset, the initial
\* authentication may have failed
InitAuth ==
  /\ OthersIdle
  /\ plMembers = MembersOf(DID_A, PL_AUTHORS)
  /\ auth_handle \in {<<>>, <<"h">>}
  /\ service_auth \in {[token |-> None, did |-> None],
                       [token |-> Some(1), did |-> Some(SERVICE_DID)]}
  /\ IsSome(service_auth.token) => auth_handle # <<>>
  /\ wall = StartSecs
  /\ cache = {}
  /\ rq = NoRequest
  /\ cleaners = <<>>
  /\ done = <<>>
  /\ getLog = NoGet

UpstreamErrors == {Unauthorized, ServerError}

NextAuth ==
  \/ \E header \in {"valid", "invalid", "missing"} :
       Len(done) < MaxAuthRequests /\ OyaRequest(header, DID_A, Some(1), None)
  \/ \E answer \in {TzOk(0)} \cup {TzErr(e) : e \in UpstreamErrors} :
       OyaTimezone(answer, TRUE, TRUE)
  \/ OyaLookup(TRUE)
  \/ \E answer \in {SearchOk(n, None) : n \in 0..1}
                     \cup {SearchErr(e) : e \in UpstreamErrors} :
       OyaSearch(answer)
  \/ OyaBreak(TRUE)
  \/ OnAttemptError
  \/ \E ok \in BOOLEAN : Reauthenticate(ok)
  \/ \E header \in {"valid", "invalid", "missing"} :
       Len(done) < MaxAuthRequests /\ TodoRequest(header)
  \/ \E todos, dones \in {"ok"} \cup UpstreamErrors : TodoAttempt(todos, dones)
  \/ Len(done) < MaxAuthRequests /\ RefreshRequest(DID_A)
  \/ \E order \in list_users(plMembers, rq.did) : RefreshList(order)
  \/ \E answer \in {Found(<<>>),
                     Found(<<PostView(NextTarget, 1, 1, Rfc3339(0, 1000, 0))>>)}
                     \cup {FoundErr(e) : e \in UpstreamErrors} :
       RefreshSearch(answer)
  \/ RefreshDone

SpecAuth == InitAuth /\ [][NextAuth]_vars

\* C19: an answered request during which an upstream call failed with 401
\* has re-authenticated once (and, the new token installed, has made its
\* second attempt); no request re-authenticates more than once or makes
\* more than two attempts
C19_ReauthOnUnauthorized ==
  \A i \in 1..Len(done) :
    /\ done[i].unauthorized => done[i].reauths = 1
    /\ done[i].reauths <= 1
    /\ done[i].attempts <= 2
    /\ done[i].attempts = 2 => done[i].reauths = 1

\* the text of the error the request failed with carries the failure e
Surfaces(error, e) ==
  /\ IsSome(error)
  /\ \E k \in 1..Len(Unwrap(error).text) : Unwrap(error).text[k] = e

\* C20: when authenticate fails, the credential holder is as it was, no
\* further call is made upstream, and the request fails with the failure
\* of its first attempt
C20_ReauthFailureSurfacesOriginal ==
  [][(rq.phase = "reauth" /\ rq'.phase = "answered") =>
       /\ service_auth' = service_auth
       /\ rq'.attempt = 1 /\ rq'.searches = rq.searches
       /\ Surfaces(rq'.error, Unwrap(rq.failure))]_vars

(***************************************************************************)
(* getFeedSkeleton: the route in front of the five feed handlers.  The     *)
(* feed parameter is a sequence of words and "/"; the Authorization header *)
(* is missing, carries a token extract_did_from_jwt rejects ("invalid"),   *)
(* or carries a JWT with a DID ("valid").                                  *)
(***************************************************************************)
\* FeedService::from_str
from_str(s) ==
  IF s \in {<<"helloworld">>, <<"todoapp">>, <<"oneyearago">>,
            <<"fakebluesky">>, <<"privatelist">>}
  THEN Some(s[1]) ELSE None

\* params.feed.split('/').next_back(): what follows the last "/" (split
\* yields at least one piece, so the BadRequest of l.51 is never returned)
next_back(feed) ==
  LET slashes == {i \in 1..Len(feed) : feed[i] = "/"}
      last == IF slashes = {} THEN 0
              ELSE CHOOSE i \in slashes : \A j \in slashes : j <= i
  IN SubSeq(feed, last + 1, Len(feed))

\* the route answers by itself: the rejection of the Query extractor (the
\* query string does not deserialize into FeedQuery, whose feed is
\* required), or Err(AppError) of get_feed_skeleton
RouteFail(variant, text) ==
  /\ rq.phase \in {"idle", "answered"}
  /\ Fail(NewRequest("route", "valid", <<>>, 0, None), variant, <<text>>)
  /\ UNCHANGED <<wall, cache, service_auth, auth_handle, getLog,
                  svcFrame, plCache>>

\* get_feed_skeleton: the extractor, the feed name, the service, the handler
GetFeedSkeleton(feed, header, cursor, limitIn, dbOk) ==
  IF ~IsSome(feed)
  THEN RouteFail("BadRequest", "Failed to deserialize query string")
  ELSE LET service == from_str(next_back(Unwrap(feed)))
       IN IF ~IsSome(service)
          THEN RouteFail("NotFound", "Feed not found")
          ELSE CASE Unwrap(service) = "helloworld" ->
                      ReadHelloworld(header # "missing", cursor, limitIn,
                                     FALSE, dbOk)
                 [] Unwrap(service) = "todoapp" -> TodoRequest(header)
                 [] Unwrap(service) = "oneyearago" ->
                      OyaRequest(header, DID_A, limitIn, cursor)
                 [] Unwrap(service) = "fakebluesky" ->
                      ReadFakebluesky(cursor, limitIn, dbOk)
                 [] Unwrap(service) = "privatelist" ->
                      ReadPrivatelist(header = "valid", DID_A, cursor, limitIn,
                                      dbOk)

(***************************************************************************)
(* SpecRoute: requests of every kind through the route, the service        *)
(* authenticated or not, upstream answering or failing with 500.           *)
(***************************************************************************)
MaxRouted == 2

GENERATOR == <<"at:", "/", "/", "did:example:123", "/",
               "app.bsky.feed.generator", "/">>

\* the feed parameters of the requests: missing, the five feeds, an
\* unknown name, a bare name, a trailing "/", the empty string
FeedParams ==
  {None, Some(<<"helloworld">>), Some(<<"helloworld", "/">>), Some(<<>>)}
    \cup {Some(GENERATOR \o <<name>>) :
            name \in {"helloworld", "todoapp", "oneyearago", "fakebluesky",
                      "privatelist", "unknown_feed"}}

Headers == {"missing", "invalid", "valid"}

InitRoute == InitAuth

NextRoute ==
  \/ \E feed \in FeedParams, header \in Headers,
        cursor \in {None, Some(<<"3">>)}, limitIn \in {None, Some(1)},
        dbOk \in BOOLEAN :
       Len(done) < MaxRouted
         /\ GetFeedSkeleton(feed, header, cursor, limitIn, dbOk)
  \/ OyaTimezone(TzOk(0), TRUE, TRUE)
  \/ OyaLookup(TRUE)
  \/ \E n \in 0..1 : OyaSearch(SearchOk(n, None))
  \/ OyaBreak(TRUE)
  \/ \E todos \in {"ok", ServerError} : TodoAttempt(todos, "ok")
  \/ OnAttemptError

SpecRoute == InitRoute /\ [][NextRoute]_vars

\* the status of a response of the read handlers
RespCode(status) ==
  CASE status = "ok" -> 200
    [] status = "unauthorized" -> 401
    [] status = "error" -> 500
    [] OTHER -> 0

\* the step answers the request with the status
Replies(service, status) ==
  IF service \in {"helloworld", "fakebluesky", "privatelist"}
  THEN RespCode(resp'.status) = status
  ELSE rq'.phase = "answered" /\ rq'.status = status

\* the feed the parameter names, "route" if there is none
ServiceOf(feed) ==
  IF IsSome(feed) /\ IsSome(from_str(next_back(Unwrap(feed))))
  THEN Unwrap(from_str(next_back(Unwrap(feed)))) ELSE "route"

\* C21: getFeedSkeleton answers 400 when the feed parameter is missing, 404
\* when its last path segment is not a served feed name, and 401 for a
\* served feed when the Authorization header is missing or, for the feeds
\* that extract the requester DID (todoapp, oneyearago, privatelist), when
\* the token is not a JWT with a decodable payload
C21_StatusCodes ==
  [][\A feed \in FeedParams, header \in Headers,
        cursor \in {None, Some(<<"3">>)}, limitIn \in {None, Some(1)},
        dbOk \in BOOLEAN :
       GetFeedSkeleton(feed, header, cursor, limitIn, dbOk) =>
         LET service == ServiceOf(feed)
         IN /\ ~IsSome(feed) => Replies(service, 400)
            /\ (IsSome(feed) /\ service = "route") => Replies(service, 404)
            /\ (service # "route" /\ header = "missing") =>
                 Replies(service, 401)
            /\ (service \in {"todoapp", "oneyearago", "privatelist"}
                  /\ header = "invalid") => Replies(service, 401)]_vars

(***************************************************************************)
(* The private lists: /privatelist/add, remove, list and refresh, and the  *)
(* feed of the list.  The user of a request is the one the extractor       *)
(* (session cookie or JWT) has authenticated.                              *)
(***************************************************************************)
listFrame == <<envVars, procVars, subVars, cbVars, dbVars, histVars, resp,
              analyses, handlers, auth_guard>>

\* privatelist_add
PlAdd(did, target, dbOk) ==
  LET r == [NewRequest("add", "valid", did, 0, None) EXCEPT !.target = target]
  IN /\ rq.phase \in {"idle", "answered"}
     /\ IF dbOk
        THEN /\ plMembers' = add_user(plMembers, did, target)
             /\ Respond([r EXCEPT !.status = 200])
        ELSE /\ plMembers' = plMembers
             /\ Fail(r, "Database", <<"Database error">>)
     /\ UNCHANGED <<wall, cache, service_auth, auth_handle, getLog, listFrame,
                    plCache>>

\* privatelist_remove
PlRemove(did, target, dbOk) ==
  LET r == [NewRequest("remove", "valid", did, 0, None)
              EXCEPT !.target = target]
  IN /\ rq.phase \in {"idle", "answered"}
     /\ IF dbOk
        THEN /\ plMembers' = remove_user(plMembers, did, target)
             /\ Respond([r EXCEPT !.status = 200])
        ELSE /\ plMembers' = plMembers
             /\ Fail(r, "Database", <<"Database error">>)
     /\ UNCHANGED <<wall, cache, service_auth, auth_handle, getLog, listFrame,
                    plCache>>

\* privatelist_list: Json(users)
PlList(did) ==
  LET r == NewRequest("list", "valid", did, 0, None)
  IN /\ rq.phase \in {"idle", "answered"}
     /\ \E users \in list_users(plMembers, did) :
          Respond([r EXCEPT !.status = 200, !.acc = users])
     /\ UNCHANGED <<wall, cache, service_auth, auth_handle, getLog, listFrame,
                    plMembers, plCache>>

\* handle_privatelist, its answer kept with the answered requests
PlFeed(did, cursor, limitIn, dbOk) ==
  LET r == NewRequest("privatelist", "valid", did,
                      UnwrapOr(limitIn, DEFAULT_LIMIT), cursor)
  IN /\ rq.phase \in {"idle", "answered"}
     /\ \E answer \in PrivatelistAnswers(did, cursor, limitIn, dbOk) :
          IF answer.status = "ok"
          THEN Respond([r EXCEPT !.status = 200, !.acc = answer.items,
                                 !.next = answer.cursorOut])
          ELSE Fail(r, "Internal", <<"error returned from database">>)
     /\ UNCHANGED <<wall, cache, service_auth, auth_handle, getLog, listFrame,
                    plMembers, plCache>>

(***************************************************************************)
(* SpecList: two users, two targets; the lists and the post cache hold     *)
(* what earlier requests left; a few requests in a row.                    *)
(***************************************************************************)
MaxListOps == 3

ALICE == "did:plc:alice"
BOB == "did:plc:bob"

\* the responses of the search for a target: no post, one post, the same
\* post with another cid and indexedAt, two posts, a post whose indexedAt
\* is no timestamp
SearchResults(target) ==
  {<<>>,
   <<PostView(target, 1, 1, Rfc3339(0, 1000, 0))>>,
   <<PostView(target, 1, 3, Rfc3339(9 * SECS_PER_HOUR, 2999, 9 * SECS_PER_HOUR))>>,
   <<PostView(target, 3, 3, Rfc3339(0, 3000, 0)),
     PostView(target, 1, 1, Rfc3339(0, 1000, 0))>>,
   <<PostView(target, 3, 3, Rfc3339(0, 2000, 0)),
     PostView(target, 1, 1, NoTimestamp)>>}

\* the server with ENABLE_JETSTREAM unset and authenticated: the lists are
\* empty or the user a follows both targets and the user b one of them; the
\* post cache is empty or holds a post of each target
InitList ==
  /\ upstream = <<>>
  /\ now = MaxStamp + 1
  /\ faults = 0
  /\ pc = "off"
  /\ sleepSecs = 0
  /\ lastFailure = "none"
  /\ initial_cursor = None /\ cursor_us = None /\ current_cursor = None
  /\ subCursor = None /\ subPos = 0 /\ subAlive = FALSE
  /\ inflight = 0 /\ new_cursor = None
  /\ cursorRow = None
  /\ hwIndex = {} /\ fbIndex = {}
  /\ \E c \in {x \in Contents :
                 \A i \in 1..MaxRows : x[i] = 0 \/ x = [j \in 1..MaxRows |-> Min(j, MaxStamp)]} :
       plCache = CacheRows(c)
  /\ plMembers \in {EmptyBag,
                    MembersOf(DID_A, PL_AUTHORS) (+) MembersOf(DID_B, {BOB})}
  /\ resp = NoResponse
  /\ analyses = <<>>
  /\ handlers = <<>>
  /\ auth_guard = Unlocked
  /\ Authenticated
  /\ wall = StartSecs /\ cache = {} /\ rq = NoRequest /\ cleaners = <<>>
  /\ done = <<>> /\ getLog = NoGet
  /\ passed = {} /\ passedRun = {} /\ passedTwice = {}
  /\ owed = {}
  /\ subsOpened = "none"
  /\ dbFault = FALSE
  /\ firstInsert = [k \in {"hw", "fb"} |-> [i \in 1..MaxEvents |-> None]]
  /\ reinserted = {}
  /\ storedWith = [i \in 1..MaxEvents |-> <<>>]

ListUsers == {DID_A, DID_B}

NextList ==
  \/ \E did \in ListUsers, target \in PL_AUTHORS, dbOk \in BOOLEAN :
       Len(done) < MaxListOps /\ PlAdd(did, target, dbOk)
  \/ \E did \in ListUsers, target \in PL_AUTHORS, dbOk \in BOOLEAN :
       Len(done) < MaxListOps /\ PlRemove(did, target, dbOk)
  \/ \E did \in ListUsers : Len(done) < MaxListOps /\ PlList(did)
  \/ \E did \in ListUsers, cursor \in {None, Some(<<"2">>)},
        limitIn \in {None, Some(1)} :
       Len(done) < MaxListOps /\ PlFeed(did, cursor, limitIn, TRUE)
  \/ \E did \in ListUsers : Len(done) < MaxListOps /\ RefreshRequest(did)
  \/ \E order \in list_users(plMembers, rq.did) : RefreshList(order)
  \/ \E posts \in SearchResults(NextTarget) : RefreshSearch(Found(posts))
  \/ RefreshSearch(FoundErr(ServerError))
  \/ RefreshDone
  \/ OnAttemptError

SpecList == InitList /\ [][NextList]_vars

\* the number of times the target is in the list
Count(list, target) == Cardinality({i \in 1..Len(list) : list[i] = target})

\* the last add or remove of the target by the user that was answered 200
\* (0: none)
LastChange(did, target) ==
  LET changes == {i \in 1..Len(done) :
                    /\ done[i].feed \in {"add", "remove"}
                    /\ done[i].status = 200
                    /\ done[i].did = did /\ done[i].target = target}
  IN IF changes = {} THEN 0
     ELSE CHOOSE i \in changes : \A j \in changes : j <= i

\* the step answers an add or a remove
ChangeAnswered ==
  Len(done') = Len(done) + 1 /\ Answered.feed \in {"add", "remove"}

\* C23: a target the user has added (however often) and not removed since
\* is in the list of the user exactly once, a target the user has removed
\* and not added since is not in it; an add or remove leaves the lists of
\* the other users and the other targets of the user as they are; the
\* remove of a target that is not in the list changes nothing and is
\* answered 200 (a failing database apart)
C23_MembershipOperations ==
  /\ [](\A did \in ListUsers, target \in PL_AUTHORS :
          LastChange(did, target) > 0 =>
            \A list \in list_users(plMembers, did) :
              Count(list, target) =
                IF done[LastChange(did, target)].feed = "add" THEN 1 ELSE 0)
  /\ [][ChangeAnswered =>
          /\ \A did \in ListUsers \ {Answered.did} :
               list_users(plMembers', did) = list_users(plMembers, did)
          /\ \A target \in PL_AUTHORS \ {Answered.target} :
               \A before \in list_users(plMembers, Answered.did),
                  after \in list_users(plMembers', Answered.did) :
                 Count(after, target) = Count(before, target)
          /\ (/\ Answered.feed = "remove"
              /\ \A before \in list_users(plMembers, Answered.did) :
                   Count(before, Answered.target) = 0) =>
               /\ plMembers' = plMembers
               /\ Answered.status # 200 =>
                    Unwrap(Answered.error).variant = "Database"]_vars

\* the user a, whose list held alice already, has added alice twice and
\* then listed: alice is there once, and the list of the user b is as before
C23_Witness ==
  /\ Len(done) = 3
  /\ \A i \in 1..2 : /\ done[i].feed = "add" /\ done[i].status = 200
                     /\ done[i].did = DID_A /\ done[i].target = ALICE
  /\ done[3].feed = "list" /\ done[3].did = DID_A
  /\ Count(done[3].items, ALICE) = 1 /\ Count(done[3].items, BOB) = 1
  /\ list_users(plMembers, DID_B) = {<<BOB>>}

\* the step answers a feed request of a private list with a feed
FeedAnswered ==
  /\ Len(done') = Len(done) + 1
  /\ Answered.feed = "privatelist" /\ Answered.status = 200

\* the targets in the list of the user
ListOf(table, did) == {t \in PL_AUTHORS : BagIn(Member(did, t), table)}

\* C22: the feed of a user whose list is not empty consists of URIs of
\* cached posts whose author_did is in the list of the user as it is now
\* and whose indexed_at is below the cursor (the clock if there is none),
\* in descending order of indexed_at, at most limit of them
C22_FeedOnlyCurrentMembers ==
  [][FeedAnswered =>
       LET bound == UnwrapOr(CursorVal(Answered.cursor), now)
           list == ListOf(plMembers', Answered.did)
           items == Answered.items
       IN list # {} =>
            /\ Len(items) <= Answered.limit
            /\ \A k \in 1..Len(items) :
                 \E r \in plCache' : /\ r.uri = items[k]
                                     /\ r.author_did \in list
                                     /\ r.indexed_at < bound
            /\ \A k \in 1..(Len(items) - 1) :
                 \A r1, r2 \in plCache' :
                   (r1.uri = items[k] /\ r2.uri = items[k + 1]) =>
                     r1.indexed_at >= r2.indexed_at]_vars

\* the user a has removed bob and reads the feed: the cached post of bob,
\* whom the user b still lists, is not in it, the post of alice is
C22_Witness ==
  /\ Len(done) >= 2
  /\ LET removed == done[Len(done) - 1]
         read == done[Len(done)]
     IN /\ removed.feed = "remove" /\ removed.status = 200
        /\ removed.did = DID_A /\ removed.target = BOB
        /\ read.feed = "privatelist" /\ read.status = 200
        /\ read.did = DID_A /\ read.cursor = None
        /\ Len(read.items) = 1
        /\ \E r \in plCache : r.uri = read.items[1] /\ r.author_did = ALICE
        /\ \E r \in plCache : r.author_did = BOB /\ r.indexed_at < now
  /\ ListOf(plMembers, DID_B) = {BOB}

\* the posts the searches of a refresh have returned
FoundPosts(r) ==
  UNION {{r.calls[i].posts[k] : k \in 1..Len(r.calls[i].posts)} :
           i \in 1..Len(r.calls)}

\* the refresh of the user has been answered 200 and nothing was asked since
RefreshSucceeded ==
  rq.feed = "refresh" /\ rq.phase = "answered" /\ rq.status = 200

\* the post is in the cache as the search returned it, in one row
CachedAsFound(p) ==
  /\ \E r \in plCache : /\ r.uri = p.uri /\ r.cid = p.cid
                        /\ r.indexed_at = timestamp_micros(p.indexed_at)
  /\ Cardinality({r \in plCache : r.uri = p.uri}) = 1

\* after a successful refresh every post its searches returned is cached
\* under its URI with the cid and the indexedAt, in microseconds, returned
AllCachedAsFound ==
  RefreshSucceeded => \A p \in FoundPosts(rq) : CachedAsFound(p)

\* the user reads the feed right after the refresh
ReadAfterRefresh ==
  RefreshSucceeded /\ FeedAnswered /\ Answered.did = rq.did

\* C24 as stated: after a successful refresh every post found is cached as
\* found, and the feed the user reads next returns all of them
C24_RefreshThenRead ==
  /\ []AllCachedAsFound
  /\ [][ReadAfterRefresh =>
          \A p \in FoundPosts(rq) : p.uri \in Elements(Answered.items)]_vars

\* C24: after a successful refresh every post found is cached as found,
\* and the feed the user reads next returns each of them whose indexed_at
\* is below the cursor of the read (the clock if there is none), unless the
\* page is filled with limit posts that are not older
C24_RefreshThenReadPage ==
  /\ []AllCachedAsFound
  /\ [][ReadAfterRefresh =>
          LET bound == UnwrapOr(CursorVal(Answered.cursor), now)
              items == Answered.items
          IN \A p \in FoundPosts(rq) :
               timestamp_micros(p.indexed_at) < bound =>
                 \/ p.uri \in Elements(items)
                 \/ /\ Len(items) = Answered.limit
                    /\ \A k \in 1..Len(items) :
                         \E r \in plCache' :
                           /\ r.uri = items[k]
                           /\ r.indexed_at
                                >= timestamp_micros(p.indexed_at)]_vars

\* the user a has added alice, has refreshed, and reads a feed with a post
\* of alice the refresh has cached (cid 3, indexedAt 09:00:00.000002999
\* +09:00, that is 2 microseconds), replacing the row the cache had
C24_Witness ==
  /\ Len(done) = 3
  /\ done[1].feed = "add" /\ done[1].status = 200
  /\ done[1].did = DID_A /\ done[1].target = ALICE
  /\ done[2].feed = "refresh" /\ done[2].status = 200 /\ done[2].did = DID_A
  /\ done[2].searches = 1
  /\ done[3].feed = "privatelist" /\ done[3].status = 200
  /\ done[3].did = DID_A
  /\ \E r \in plCache : /\ r.uri = PostUri(ALICE, POST_COLLECTION, 1)
                        /\ r.cid = 3 /\ r.indexed_at = 2
                        /\ r.uri \in Elements(done[3].items)
  /\ Cardinality(plCache) = MaxRows


(***************************************************************************)
(* fakebluesky: has_blue_sky_images, one step per await.  Every call has   *)
(* its own semaphore; a task is spawned once the loop holds a permit, the  *)
(* permit moves into the task, and the join loop awaits the tasks in the   *)
(* order they were spawned.  A JoinHandle that is dropped does not stop    *)
(* its task.                                                               *)
(***************************************************************************)
\* Semaphore::new(2)
SEMAPHORE_PERMITS == 2

\* images of the posts analysed, and posts analysed in one behaviour
MaxImages == 3

MaxAnalysed == 2

\* how a spawned task can end: is_blue_sky_image returns Ok(false),
\* Ok(true), Err (download or decode failed), Err (the 5 s timeout
\* elapsed), or the task panics and its JoinHandle yields a JoinError
TaskOutcomes == AnalysisOutcomes \cup {"timeout"}

\* a task that keeps its permit when is_blue_sky_image returns an error
\* (a mutant of TaskEnd)
TaskEndKeepingPermitOnError(call, k, outcome) ==
  IF outcome \in {"error", "timeout"}
  THEN [call EXCEPT !.tasks[k] = [outcome |-> outcome, permit |-> TRUE]]
  ELSE [call EXCEPT !.tasks[k] = [outcome |-> outcome, permit |-> FALSE],
                    !.permits = @ + 1]

\* the call as has_blue_sky_images starts: no task yet, all permits free
NewAnalysis(images) ==
  [images |-> images, permits |-> SEMAPHORE_PERMITS, tasks |-> <<>>,
   awaited |-> 0, phase |-> "spawn", value |-> FALSE]

\* semaphore.clone().acquire_owned().await, tokio::spawn, tasks.push
Spawned(call) ==
  [call EXCEPT !.permits = @ - 1,
               !.tasks = Append(@, [outcome |-> "running", permit |-> TRUE]),
               !.phase = IF Len(call.tasks) + 1 = call.images
                         THEN "join" ELSE "spawn"]

\* the end of a task: drop(permit) after is_blue_sky_image returned, or
\* the drop of the task's future when it panicked
TaskEnd(call, k, outcome) ==
  [call EXCEPT !.tasks[k] = [outcome |-> outcome, permit |-> FALSE],
               !.permits = @ + 1]

\* task.await in the join loop, on a task that has ended
Joined(call) ==
  LET k == call.awaited + 1 IN
  IF call.tasks[k].outcome = "not_blue"
  THEN [call EXCEPT !.awaited = k,
                    !.phase = IF k = call.images THEN "returned" ELSE "join"]
  ELSE [call EXCEPT !.awaited = k, !.phase = "returned", !.value = TRUE]

\* the tasks of a call that have been spawned and have not ended
Running(call) == {k \in 1..Len(call.tasks) : call.tasks[k].outcome = "running"}

\* process_event reaches has_blue_sky_images with the URLs of a post; the
\* callback has returned from the event before
AnalysePost(images) ==
  /\ Len(analyses) < MaxAnalysed
  /\ analyses # <<>> => analyses[Len(analyses)].phase = "handled"
  /\ analyses' = Append(analyses, NewAnalysis(images))
  /\ UNCHANGED <<envVars, procVars, subVars, cbVars, dbVars, histVars,
                 plMembers, plCache, resp, handlers, auth_guard,
                 svcVars>>

\* one round of the spawning loop; the acquire waits for a permit
SpawnTask ==
  /\ analyses # <<>>
  /\ LET c == Len(analyses) IN
       /\ analyses[c].phase = "spawn"
       /\ analyses[c].permits > 0
       /\ analyses' = [analyses EXCEPT ![c] = Spawned(@)]
  /\ UNCHANGED <<envVars, procVars, subVars, cbVars, dbVars, histVars,
                 plMembers, plCache, resp, handlers, auth_guard,
                 svcVars>>

\* a task of the runtime ends, of this call or of an earlier one
TaskFinish(c, k, outcome) ==
  /\ c \in DOMAIN analyses
  /\ k \in Running(analyses[c])
  /\ analyses' = [analyses EXCEPT ![c] = TaskEnd(@, k, outcome)]
  /\ UNCHANGED <<envVars, procVars, subVars, cbVars, dbVars, histVars,
                 plMembers, plCache, resp, handlers, auth_guard,
                 svcVars>>

\* one round of the join loop, or the return of false after it
JoinTask ==
  /\ analyses # <<>>
  /\ LET c == Len(analyses) IN
       /\ analyses[c].phase = "join"
       /\ analyses[c].awaited + 1 \notin Running(analyses[c])
       /\ analyses' = [analyses EXCEPT ![c] = Joined(@)]
  /\ UNCHANGED <<envVars, procVars, subVars, cbVars, dbVars, histVars,
                 plMembers, plCache, resp, handlers, auth_guard,
                 svcVars>>

\* the rest of the handling of the event: the INSERT when the value is
\* false, the cursor write, the return of the callback
FinishEvent ==
  /\ analyses # <<>>
  /\ LET c == Len(analyses) IN
       /\ analyses[c].phase = "returned"
       /\ analyses' = [analyses EXCEPT ![c].phase = "handled"]
  /\ UNCHANGED <<envVars, procVars, subVars, cbVars, dbVars, histVars,
                 plMembers, plCache, resp, handlers, auth_guard,
                 svcVars>>

InitImages == OthersIdle /\ plMembers = EmptyBag /\ ServiceIdle

NextImages ==
  \/ \E images \in 1..MaxImages : AnalysePost(images)
  \/ SpawnTask
  \/ \E c \in 1..MaxAnalysed, k \in 1..MaxImages, outcome \in TaskOutcomes :
       TaskFinish(c, k, outcome)
  \/ JoinTask
  \/ FinishEvent

SpecImages == InitImages /\ [][NextImages]_vars

\* the runtime schedules the consumer task and the spawned tasks, and a
\* spawned task ends: its download is cut after 5 s, the rest is computation
FairSpecImages ==
  /\ SpecImages
  /\ WF_vars(SpawnTask)
  /\ WF_vars(\E c \in 1..MaxAnalysed, k \in 1..MaxImages,
                outcome \in TaskOutcomes : TaskFinish(c, k, outcome))
  /\ WF_vars(JoinTask)

\* the permits the tasks of a call hold
Held(call) == {k \in 1..Len(call.tasks) : call.tasks[k].permit}

\* has_blue_sky_images is running
InAnalysis ==
  analyses # <<>> /\ analyses[Len(analyses)].phase \in {"spawn", "join"}

\* has_blue_sky_images has returned, with the value the join loop computes
\* from the outcomes of the tasks it awaited
AnalysisReturned ==
  /\ analyses # <<>>
  /\ LET call == analyses[Len(analyses)] IN
       /\ call.phase = "returned"
       /\ call.value = has_blue_sky_images(
                         [k \in 1..call.awaited |-> call.tasks[k].outcome])

\* C25: of the analysis tasks of one post at most 2 are in progress at any
\* instant; a task holds its permit exactly while it is in progress, so the
\* permit is free again once the task has returned a result, returned an
\* error, timed out or panicked; the permits are never more nor fewer than
\* 2; and every call of has_blue_sky_images returns.
C25_BoundedAnalysis ==
  /\ [](\A c \in DOMAIN analyses :
          LET call == analyses[c] IN
          /\ Cardinality(Running(call)) <= SEMAPHORE_PERMITS
          /\ Held(call) = Running(call)
          /\ call.permits + Cardinality(Held(call)) = SEMAPHORE_PERMITS)
  /\ (InAnalysis ~> AnalysisReturned)

\* a post of 3 images whose analyses ended with a result, an error and a
\* timeout: the third task was spawned after a permit came back, and the
\* call returned
C25_Witness ==
  /\ analyses # <<>>
  /\ LET call == analyses[1] IN
       /\ call.images = MaxImages
       /\ call.phase = "returned"
       /\ call.permits = SEMAPHORE_PERMITS
       /\ {call.tasks[k].outcome : k \in 1..Len(call.tasks)}
            = {"not_blue", "error", "timeout"}


(***************************************************************************)
(* Claims about the callback of the consumer.                              *)
(***************************************************************************)
\* a step of a processor in which its INSERT fails (a fault that is not the
\* crash of the process)
InsertFails(location) ==
  pc = location /\ faults' = faults + 1 /\ pc' # "down"

\* helloworld has handled event i and its INSERT has failed: the event
\* matches, this run has opened one subscription, and no row is there
HwFailedOn(i) ==
  /\ i \in passedRun /\ subsOpened = "one"
  /\ i <= Len(upstream) /\ HelloworldRow(i, 0) # None
  /\ RowsOf("hw", i) = {}
  /\ inflight # i \/ pc # "cb_helloworld"

\* fakebluesky has handled event i and stored nothing, because its INSERT
\* failed or because the analysis excluded the post
FbNotStoredOn(i) ==
  /\ i \in passedRun /\ subsOpened = "one"
  /\ i <= Len(upstream) /\ FbAnalyses(i)
  /\ RowsOf("fb", i) = {}
  /\ inflight # i \/ pc = "cb_save"

\* event j is a commit event upstream holds after event i
LaterCommit(i, j) ==
  i < j /\ j <= Len(upstream) /\ upstream[j].kind = "commit"

\* both processors have handled event j
HandledByBoth(j) == pc = "cb_save" /\ inflight = j

\* C26: when the INSERT of helloworld fails on an event, fakebluesky handles
\* the same event next and its cursor is the one the callback saves; when
\* the INSERT of fakebluesky fails, the rows of helloworld stay and the
\* callback goes on to the cursor write; the consumer stays in its loop; and
\* a commit event upstream holds after the event of the failure is handled
\* by both processors, provided no further fault (crash, closed channel,
\* failed statement) occurs.
C26_ProcessorsIsolated ==
  /\ [][InsertFails("cb_helloworld") =>
          /\ pc' = "cb_fakebluesky" /\ inflight' = inflight
          /\ fbIndex' = fbIndex /\ new_cursor' = new_cursor]_vars
  /\ [][InsertFails("cb_fakebluesky") =>
          /\ pc' = "cb_save" /\ inflight' = inflight
          /\ hwIndex' = hwIndex
          /\ new_cursor' = OrElse(FbCursor(inflight), HwCursor)]_vars
  /\ \A i \in 1..MaxEvents, j \in 1..MaxEvents :
       (HwFailedOn(i) /\ LaterCommit(i, j) /\ faults = MaxFaults)
         ~> HandledByBoth(j)
  /\ \A i \in 1..MaxEvents, j \in 1..MaxEvents :
       (FbNotStoredOn(i) /\ LaterCommit(i, j) /\ faults = MaxFaults)
         ~> HandledByBoth(j)

\* helloworld's INSERT failed on the first event, and the second event has
\* been handled by both processors in the same subscription
C26_Witness ==
  /\ HwFailedOn(1)
  /\ HandledByBoth(2)


(***************************************************************************)
(* The timezone cache specification: oneyearago requests of two users in a *)
(* row, the clock advancing between them; the reads and writes of the      *)
(* tz:{did} entry and the upstream lookup may fail.                        *)
(***************************************************************************)
MaxTzRequests == 3

InitTz == InitWaterfall

\* (the steps of a request are not interleaved with the clock)
NextTz ==
  \/ Between /\ Tick
  \/ \E did \in {DID_A, DID_B} :
       Len(done) < MaxTzRequests /\ OyaRequest("valid", did, Some(1), None)
  \/ \E answer \in {TzOk(offset) : offset \in TzOffsets}
                     \cup {TzErr(ServerError)},
        readOk \in BOOLEAN, writeOk \in BOOLEAN :
       OyaTimezone(answer, readOk, writeOk)
  \/ OyaLookup(TRUE)
  \/ OyaSearch(SearchOk(0, None))
  \/ OyaBreak(TRUE)
  \/ OnAttemptError

SpecTz == InitTz /\ [][NextTz]_vars

\* the step in which the request being served resolves its timezone
TzStep == rq.phase = "tz" /\ rq'.phase # "tz"

\* the step calls determine_timezone
TzLookupCalled == rq'.lookups = rq.lookups + 1

\* the unexpired tz:{did} entry of the requester, as the table holds it
TzEntry == get_raw(cache, tz_key(rq.did), wall)

\* the rows of the table under the requester's key after the step
TzRowsAfter == {r \in cache' : r.key = tz_key(rq.did)}

\* the last answered request of the requester that called the lookup and
\* got an offset (0: none), and the last whose set_timezone succeeded
LastResolved ==
  LET ks == {k \in 1..Len(done) :
               /\ done[k].did = rq.did /\ done[k].lookups > 0
               /\ done[k].status = 200}
  IN IF ks = {} THEN 0 ELSE CHOOSE k \in ks : \A j \in ks : j <= k

LastStored ==
  LET ks == {k \in 1..Len(done) : done[k].did = rq.did /\ done[k].tz_set}
  IN IF ks = {} THEN 0 ELSE CHOOSE k \in ks : \A j \in ks : j <= k

\* the request is made within 24 h of the timezone step of request k
WithinTtlOf(k) == wall < done[k].now_utc + 24 * SECS_PER_HOUR

ConnectStep == pc = "loop" /\ pc' = "recv"

\* the callback returns
CallbackReturns == pc = "cb_save" /\ pc' = "recv"

\* C28: a subscription is opened with the cursor the callback returned last
\* in this run (the value main keeps in current_cursor), whatever made the
\* consumer connect again: a connector failure, a connect failure, a closed
\* channel or the 60 s timeout; before the callback has returned a cursor
\* that is the initial cursor.  The cursor of connect_and_run changes only
\* when the callback returns Some(cursor), which becomes the new value; a
\* callback that returns None and an event that is not a commit leave it as
\* it was.
C28_ReconnectWithLatestCursor ==
  /\ [][ConnectStep =>
          /\ subCursor' = current_cursor
          /\ cursor_us' = current_cursor
          /\ lastFailure \in {"none", "connector", "connect", "closed",
                              "timeout"}
          /\ lastFailure = "none" => subCursor' = initial_cursor]_vars
  /\ [][(CallbackReturns /\ IsSome(new_cursor)) =>
          (cursor_us' = new_cursor /\ current_cursor' = new_cursor)]_vars
  /\ [][(CallbackReturns /\ new_cursor = None) =>
          (cursor_us' = cursor_us /\ current_cursor' = current_cursor)]_vars
  /\ [][(pc = "recv" /\ pc' = "recv" /\ subPos' = subPos + 1) =>
          (upstream[subPos].kind # "commit" /\ cursor_us' = cursor_us)]_vars
  /\ [][cursor_us' # cursor_us =>
          \/ CallbackReturns /\ IsSome(new_cursor)
          \/ pc = "boot" /\ cursor_us' = initial_cursor'
          \/ pc' = "down"]_vars

\* after a closed channel the consumer has connected again with the cursor
\* of the first event, a create; the second event, a delete for which the
\* callback returned None, had been handled before the channel closed
C28_Witness ==
  /\ pc = "recv" /\ subsOpened = "many"
  /\ Len(upstream) = 2
  /\ upstream[1].op = "create" /\ upstream[2].op = "delete"
  /\ passed = {1, 2}
  /\ subCursor = Some(TimeUs(1)) /\ subCursor # initial_cursor
  /\ subPos = 1


\* the events upstream holds that the live subscription has still to hand
\* over or that the callback has not returned from
Unfinished ==
  IF pc \in {"cb_helloworld", "cb_fakebluesky", "cb_save"}
  THEN inflight..Len(upstream)
  ELSE IF pc = "recv" /\ subAlive THEN subPos..Len(upstream)
  ELSE {}

\* C29: when the callback returns a cursor, the INSERT OR REPLACE of that
\* value has been executed: the row holds it, or the statement failed and
\* the row is as it was; the row is written nowhere else, and the value
\* written is the time_us of the event whose processors have just finished.
\* So the persisted cursor is the time_us of a create event that was passed
\* to the callback and whose processors had finished when it was written,
\* and every event that is in flight or still to be received is at-or-after
\* the persisted cursor: a subscription opened with the persisted cursor
\* after a crash delivers it again.
C29_CursorWriteBeforeReturn ==
  /\ [][(CallbackReturns /\ IsSome(new_cursor)) =>
          /\ new_cursor = Some(TimeUs(inflight))
          /\ \/ cursorRow' = new_cursor
             \/ cursorRow' = cursorRow /\ dbFault' /\ faults' = faults + 1]_vars
  /\ [][cursorRow' # cursorRow =>
          (CallbackReturns /\ cursorRow' = Some(TimeUs(inflight)))]_vars
  /\ [](IsSome(cursorRow) =>
          /\ \E i \in passed :
               upstream[i].op = "create" /\ Unwrap(cursorRow) = TimeUs(i)
          /\ \A i \in Unfinished : Unwrap(cursorRow) <= TimeUs(i)
          /\ \A i \in Unfinished : i >= SubStart(cursorRow))

\* the process went down while the second event was in flight, the cursor of
\* the first persisted: the new subscription, opened with the loaded cursor,
\* has the second event still to deliver
C29_Witness ==
  /\ pc = "recv" /\ subsOpened = "one" /\ faults > 0
  /\ passed = {1, 2}
  /\ passedRun = {1}
  /\ cursorRow = Some(TimeUs(1)) /\ subCursor = cursorRow
  /\ RowsOf("hw", 2) = {} /\ RowsOf("fb", 2) = {}
  /\ subPos = 2


\* C30: the handling of an event is complete when the callback returns and
\* the next event is received: no analysis task of an event whose callback
\* has returned is still running, so the tasks of two events never run at
\* the same time.
C30_HandlingCompleteAtReturn ==
  \A c \in DOMAIN analyses :
    (analyses[c].phase = "handled" \/ c < Len(analyses))
      => Running(analyses[c]) = {}


(***************************************************************************)
(* Claims about the fan-out of the callback.                               *)
(***************************************************************************)
\* the greatest of two optional cursors, None when both are None
MaxCursor(a, b) ==
  IF a = None THEN b
  ELSE IF b = None THEN a
  ELSE IF Unwrap(a) >= Unwrap(b) THEN a ELSE b

MatchingRows ==
  IF resp.feed = "helloworld"
  THEN {r \in hwIndex : r.indexed_at < UnwrapOr(RespCursorVal, I64_MAX)}
  ELSE IF resp.feed = "fakebluesky"
  THEN {r \in fbIndex : r.indexed_at < UnwrapOr(RespCursorVal, I64_MAX)}
  ELSE {r \in plCache :
          /\ r.author_did \in {m.target_did : m \in BagToSet(plMembers)}
          /\ r.indexed_at < UnwrapOr(RespCursorVal, now)}

\* C32: a read of helloworld, fakebluesky or privatelist returns a cursor
\* if and only if the index holds a matching row beyond the rows of the
\* returned page.
C32_CursorIffFurtherRow ==
  (resp.status = "ok"
     /\ resp.feed \in {"helloworld", "fakebluesky", "privatelist"}) =>
    (IsSome(resp.cursorOut) <=> Cardinality(MatchingRows) > Len(resp.stamps))


(***************************************************************************)
(* Claims about one invocation of cleanup_at.                              *)
(***************************************************************************)
\* cleanup task i goes from one position to another in this step
CleanerMoves(i, from, to) ==
  /\ i \in 1..Len(cleaners)
  /\ cleaners[i].pc = from
  /\ cleaners'[i].pc = to

\* the row of the mark of the day
MarkRows(table) == {r \in table : r.key = STATUS_KEY}

\* C33: an invocation of cleanup_at at an hour before 4 at +9 h, or one that
\* reads today's date in the mark, deletes nothing and leaves the mark as
\* it is; any other invocation deletes exactly the rows whose expires_at is
\* at or before its now, and then stores today's date in the mark with an
\* expiry ten years after its now, so that an invocation that reads this
\* mark on the same day is skipped
C33_CleanupAt ==
  /\ [][\A i \in 1..MaxRequests :
          /\ CleanerMoves(i, "spawned", "end") =>
               /\ cache' = cache
               /\ \/ JstHour(wall) < 4
                  \/ get_raw(cache, STATUS_KEY, wall) = Some(JstToday(wall))
          /\ CleanerMoves(i, "spawned", "checked") =>
               /\ cache' = cache
               /\ JstHour(wall) >= 4
               /\ get_raw(cache, STATUS_KEY, wall) # Some(JstToday(wall))
               /\ cleaners'[i].now = wall
               /\ cleaners'[i].today = JstToday(wall)
          /\ (i \in 1..Len(cleaners) /\ cleaners[i].pc = "spawned"
                /\ (JstHour(wall) < 4
                      \/ get_raw(cache, STATUS_KEY, wall)
                           = Some(JstToday(wall)))) =>
               cleaners'[i].pc \in {"spawned", "end"}
          /\ CleanerMoves(i, "checked", "deleted") =>
               /\ cache' \subseteq cache
               /\ \A r \in cache :
                    r \in cache' <=> r.expires_at > cleaners[i].now
               /\ MarkRows(cache') = MarkRows(cache)
          /\ CleanerMoves(i, "deleted", "end") =>
               /\ MarkRows(cache') =
                    {[key |-> STATUS_KEY, value |-> cleaners[i].today,
                      expires_at |->
                        cleaners[i].now + 365 * 10 * SECS_PER_DAY]}
               /\ cache' \ MarkRows(cache') = cache \ MarkRows(cache)
               /\ get_raw(cache', STATUS_KEY, wall) = Some(cleaners[i].today)
     ]_vars
  /\ [](\A i \in 1..Len(cleaners) :
          /\ cleaners[i].deleted => JstHour(cleaners[i].now) >= 4
          /\ (cleaners[i].pc = "end" /\ ~cleaners[i].deleted) =>
               cleaners[i].affected = 0)

\* one invocation deleted a row and stored the mark; a later invocation of
\* the same day read the mark and was skipped
C33_Witness ==
  \E i, j \in 1..Len(cleaners) :
    /\ cleaners[i].pc = "end" /\ cleaners[i].deleted
    /\ cleaners[i].affected >= 1
    /\ cleaners[j].pc = "end" /\ ~cleaners[j].deleted
    /\ cleaners[j].today = cleaners[i].today
    /\ cleaners[j].now > cleaners[i].now
    /\ JstHour(cleaners[j].now) >= 4
    /\ MarkRows(cache) = {[key |-> STATUS_KEY, value |-> cleaners[i].today,
                           expires_at |-> FarFuture(cleaners[i].now)]}


(***************************************************************************)
(* Claims about failed searches of the waterfall.                          *)
(***************************************************************************)
\* this step is a search of the waterfall that returned Err
SearchFailedStep ==
  /\ rq.feed = "oneyearago"
  /\ Len(rq'.calls) = Len(rq.calls) + 1
  /\ ~rq'.calls[Len(rq'.calls)].answer.ok

\* C34: a search of the waterfall that fails does not fail the request: the
\* items gathered so far are kept, the api cursor is cleared, years_ago is
\* incremented, the loop goes on, so that the next search, if there is one,
\* is for the next older year from its start, and the request is answered
\* with status 200
C34_SearchErrorSkipsYear ==
  /\ [][SearchFailedStep =>
          /\ rq'.acc = rq.acc
          /\ rq'.api_cursor = None
          /\ rq'.years_ago = rq.years_ago + 1
          /\ rq'.phase = "loop"
          /\ rq'.status = rq.status]_vars
  /\ [](rq.feed = "oneyearago" =>
          \A i \in 1..Len(rq.calls) :
            ~rq.calls[i].answer.ok =>
              /\ rq.phase \in {"loop", "answered"}
              /\ rq.phase = "answered" =>
                   rq.status = 200 /\ rq.error = None
              /\ i < Len(rq.calls) =>
                   /\ rq.calls[i + 1].years_ago = rq.calls[i].years_ago + 1
                   /\ rq.calls[i + 1].target_year = rq.calls[i].target_year - 1
                   /\ rq.calls[i + 1].api_cursor = None
                   /\ rq.calls[i + 1].before = rq.calls[i].before
              /\ Len(rq.acc) >= rq.calls[i].before)

\* limit 2: a post of last year and an api cursor, then a failed search of
\* the same year, then a post of the year before; the answer is 200 with
\* both posts
C34_Witness ==
  /\ rq.feed = "oneyearago" /\ rq.phase = "answered" /\ rq.status = 200
  /\ Len(rq.calls) = 3
  /\ rq.calls[1].answer.ok /\ rq.calls[1].answer.n = 1
  /\ IsSome(rq.calls[1].answer.cursor)
  /\ ~rq.calls[2].answer.ok /\ IsSome(rq.calls[2].api_cursor)
  /\ rq.calls[3].years_ago = rq.calls[2].years_ago + 1
  /\ rq.calls[3].api_cursor = None
  /\ rq.calls[3].answer.ok /\ rq.calls[3].answer.n = 1
  /\ Len(rq.acc) = 2 /\ rq.acc[1][1] = rq.acc[2][1] + 1


(***************************************************************************)
(* Claims about the row of the persisted cursor.                           *)
(***************************************************************************)
\* C35: the jetstream_cursor row exists if and only if a commit event has
\* been processed: there is no row while no event has been passed to the
\* callback, and there is a row once the callback has returned from an
\* event, whatever its operation and whether or not a processor stored it.
C35_RowIffEventProcessed ==
  /\ [](passed = {} => cursorRow = None)
  /\ [][CallbackReturns => IsSome(cursorRow')]_vars


(***************************************************************************)
(* Claims about reading a feed page after page.                            *)
(***************************************************************************)
\* this step is the read of the page after the page answered last: the same
\* feed and limit, the cursor that was returned, the statement not failing
FollowsCursor ==
  /\ resp.status = "ok" /\ resp'.status = "ok"
  /\ resp.feed \in {"helloworld", "fakebluesky", "privatelist"}
  /\ resp'.feed = resp.feed /\ resp'.limitIn = resp.limitIn
  /\ IsSome(resp.cursorOut) /\ resp'.cursorIn = resp.cursorOut
  /\ [items |-> resp'.items, cursorOut |-> resp'.cursorOut]
       \in {Outcome(a) : a \in AnswersOf(resp.feed, resp.cursorOut, resp.limitIn)}

\* the page after is the last one of the paging: it is empty or comes
\* without cursor
LastPage(r) == r.stamps = <<>> \/ r.cursorOut = None

\* C36: of two pages read one after the other with the returned cursor, no
\* row is on both, and every matching row that is not older than the last
\* row of the second page (every matching row, when the second page ends
\* the paging) is on one of them, rows that share an indexed_at included.
C36_PagingComplete ==
  [][FollowsCursor =>
       LET first == Elements(resp.items)
           second == Elements(resp'.items)
       IN /\ \A r \in MatchingRows : ~(r.uri \in first /\ r.uri \in second)
          /\ \A r \in MatchingRows :
               (LastPage(resp')
                  \/ r.indexed_at > Unwrap(CursorVal(resp'.cursorOut))) =>
                 (r.uri \in first \/ r.uri \in second)]_vars


(***************************************************************************)
(* The loop specification: one oneyearago request whose waterfall is       *)
(* answered by upstream with any sequence of pages and errors, of any      *)
(* length.  The statements of the cache fail, which leaves the waterfall   *)
(* to run for every request, and the history of the searches is not kept,  *)
(* so that a loop that goes on is a cycle of states.                       *)
(***************************************************************************)
\* a second api cursor upstream hands out
C_NEXT == <<"e">>

LoopAnswers ==
  {SearchOk(n, c) : n \in 0..MaxPosts, c \in {None, Some(C_OUT), Some(C_NEXT)}}
    \cup {SearchErr(e) : e \in {Unauthorized, ServerError}}

\* logic.rs l.104-175: one iteration of the loop that calls search_posts
OyaSearchUnlogged(answer) ==
  /\ rq.phase = "loop"
  /\ ~LimitFilled(rq) /\ ~EndOfHistory(rq)
  /\ answer.ok => answer.n <= fetch_limit(rq)
  /\ rq' = AfterSearch(rq, answer)
  /\ UNCHANGED <<wall, cache, service_auth, auth_handle, cleaners, done, getLog,
                  svcFrame, plCache>>

InitLoop == InitWaterfall

NextLoop ==
  \/ rq.phase = "idle" /\ Tick
  \/ \E limitIn \in {Some(1), Some(2), Some(3)}, cursor \in OyaCursors :
       done = <<>> /\ OyaRequest("valid", DID_A, limitIn, cursor)
  \/ \E offset \in TzOffsets : OyaTimezone(TzOk(offset), FALSE, FALSE)
  \/ OyaLookup(FALSE)
  \/ \E answer \in LoopAnswers : OyaSearchUnlogged(answer)
  \/ OyaBreak(FALSE)

SpecLoop == InitLoop /\ [][NextLoop]_vars

\* upstream answers every search sooner or later, and the task of the
\* request is scheduled
FairSpecLoop ==
  /\ SpecLoop
  /\ WF_vars(\E answer \in LoopAnswers : OyaSearchUnlogged(answer))
  /\ WF_vars(OyaBreak(FALSE))

\* C37: whatever upstream answers to the searches, the waterfall of a
\* request comes to its end after finitely many searches, and the answer
\* has at most limit items.
C37_WaterfallTerminates ==
  /\ []((rq.phase = "answered" /\ rq.status = 200) =>
          Len(rq.acc) <= safe_limit(rq.limit))
  /\ (rq.phase = "loop") ~> (rq.phase = "answered")


(***************************************************************************)
(* The failed-search specification: the same oneyearago request made       *)
(* several times, the clock advancing between the requests, upstream       *)
(* failing some of the searches; the statements of the feed cache may      *)
(* fail.                                                                   *)
(***************************************************************************)
MaxSame == 3

InitSame == InitWaterfall

NextSame ==
  \/ Between /\ Tick
  \/ Len(done) < MaxSame /\ OyaRequest("valid", DID_A, Some(1), None)
  \/ \E offset \in TzOffsets : OyaTimezone(TzOk(offset), TRUE, TRUE)
  \/ \E readOk \in BOOLEAN : OyaLookup(readOk)
  \/ \E answer \in {SearchOk(0, None), SearchOk(1, None),
                    SearchErr(Unauthorized), SearchErr(ServerError)} :
       OyaSearch(answer)
  \/ \E writeOk \in BOOLEAN : OyaBreak(writeOk)

SpecSame == InitSame /\ [][NextSame]_vars

\* the same request, made again
Identical(a, b) == a.did = b.did /\ a.limit = b.limit /\ a.cursor = b.cursor

\* the feed cache entry of the answered request d is not expired at t
EntryAlive(d, t) == today_end_utc(d.now_utc, d.offset) > t

LastStoredSame(i) ==
  /\ CompletedOnMiss(done[i]) /\ done[i].wrote
  /\ RequestKey(done[i]) = RequestKey(Answered)
  /\ \A k \in (i + 1)..Len(done) :
       ~(CompletedOnMiss(done[k]) /\ done[k].wrote
           /\ RequestKey(done[k]) = RequestKey(Answered))

FbReturns == pc = "cb_fakebluesky" /\ pc' = "cb_save"

\* C39: fakebluesky returns Some(time_us) for every Create event, whatever
\* became of the post (text not matching, no images, excluded by the
\* analysis or by an analysis error, stored, duplicate, insert failure), and
\* None for any other event.  So the cursor written after a Create is its
\* time_us also when the post was dropped, a post is handled only while its
\* event is in flight, and a subscription opened with a cursor does not
\* deliver the events before it.
C39_CursorWhateverOutcome ==
  /\ [][FbReturns =>
          new_cursor' = (IF upstream[inflight].op = "create"
                         THEN Some(TimeUs(inflight)) ELSE None)]_vars
  /\ [][(FbReturns /\ faults' # faults) =>
          /\ FbAnalyses(inflight)
          /\ fbIndex' = fbIndex
          /\ new_cursor' = Some(TimeUs(inflight))]_vars
  /\ [][(CallbackReturns /\ upstream[inflight].op = "create"
           /\ faults' = faults) =>
          cursorRow' = Some(TimeUs(inflight))]_vars
  /\ [][fbIndex' # fbIndex =>
          /\ FbReturns
          /\ FbAnalyses(inflight)
          /\ fbIndex' = fbIndex \cup {FbRow(inflight)}]_vars
  /\ [][ConnectStep =>
          \A i \in 1..Len(upstream) :
            (IsSome(subCursor') /\ TimeUs(i) < Unwrap(subCursor')) =>
              i < subPos']_vars

\* a post with images was handled and not stored (the analysis excluded it,
\* or failed, or the insert failed); the cursor of the event after it was
\* persisted; the process went down, and the subscription opened with the
\* persisted cursor starts behind the post
C39_Witness ==
  /\ pc = "recv" /\ subsOpened = "one" /\ faults > 0
  /\ Len(upstream) = 2
  /\ FbAnalyses(1) /\ RowsOf("fb", 1) = {}
  /\ passed = {1, 2} /\ passedRun = {}
  /\ cursorRow = Some(TimeUs(2)) /\ subCursor = cursorRow
  /\ subPos = 2

\* ---------------------------------------------------------------------
\* Concurrent handlers on the credential holder
\* ---------------------------------------------------------------------

\* what the handlers of this section leave alone
guardFrame == <<envVars, procVars, subVars, cbVars, dbVars, histVars,
                plMembers, plCache, resp, analyses>>

\* how many handler tasks run at once
MaxHandlers == 3

\* the endpoints that take a guard of service_auth
GuardedEndpoints == {"todoapp", "oneyearago", "describe"}

\* what the first call with the token read can come to
FirstCalls == {"ok", "expired", "error"}

\* a handler task that has just been entered: token is the token it read,
\* did the DID it read, saw the re-authentications the two fields it found
\* under its read guard came from, new_token the token its own
\* re-authentication returned, status its answer (0: none yet)
NewHandler(feed) ==
  [feed |-> feed, pc |-> "start", token |-> None, did |-> None,
   saw |-> <<0, 0>>, new_token |-> None, status |-> 0]

\* the token todoapp::authenticate returns to handler i: every session the
\* upstream creates has a token of its own
SessionToken(i) == 1 + i

\* the pair the re-authentication of handler i returns (0: the login at
\* startup)
SessionPair(i) == [token |-> Some(SessionToken(i)), did |-> Some(SERVICE_DID)]

\* RwLock::read is granted while no task holds the write guard
CanRead(guard) == guard.writer = 0

\* a write guard granted whoever holds the lock
CanWriteAlways(guard) == TRUE

\* RwLock::write is granted while no task holds any guard
CanWrite(guard) == guard.writer = 0 /\ guard.readers = {}

\* a request of one of the guarded endpoints enters its handler
HandlerArrives(feed) ==
  /\ Len(handlers) < MaxHandlers
  /\ handlers' = Append(handlers, NewHandler(feed))
  /\ UNCHANGED <<auth_guard, svcVars, guardFrame>>

\* state.service_auth.read().await returns the read guard
ReadGuard(i) ==
  /\ i \in DOMAIN handlers
  /\ handlers[i].pc = "start"
  /\ CanRead(auth_guard)
  /\ auth_guard' = [auth_guard EXCEPT !.readers = @ \cup {i}]
  /\ handlers' = [handlers EXCEPT ![i].pc = "reading"]
  /\ UNCHANGED <<svcVars, guardFrame>>

\* the block under the read guard: auth.token.clone() (auth.did.clone() in
\* describe_feed_generator), then the guard is dropped; a missing value
\* answers "Service not authenticated"
ReadHolder(i) ==
  /\ i \in DOMAIN handlers
  /\ handlers[i].pc = "reading"
  /\ auth_guard' = [auth_guard EXCEPT !.readers = @ \ {i}]
  /\ LET h == handlers[i]
         value == IF h.feed = "describe" THEN service_auth.did
                  ELSE service_auth.token
         read == IF h.feed = "describe"
                 THEN [h EXCEPT !.did = service_auth.did,
                                !.saw = <<auth_guard.token_by,
                                          auth_guard.did_by>>]
                 ELSE [h EXCEPT !.token = service_auth.token,
                                !.saw = <<auth_guard.token_by,
                                          auth_guard.did_by>>]
     IN handlers' =
          [handlers EXCEPT ![i] =
             IF value = None THEN [read EXCEPT !.pc = "done", !.status = 500]
             ELSE IF h.feed = "describe"
             THEN [read EXCEPT !.pc = "done", !.status = 200]
             ELSE [read EXCEPT !.pc = "call"]]
  /\ UNCHANGED <<svcVars, guardFrame>>

\* the first attempt with the token read: Ok answers, an error whose text
\* names ExpiredToken, 401 or Unauthorized goes on to re-authenticate when
\* handle and password are set and answers 400 when they are not, any
\* other error is the answer
FirstAttempt(i, outcome) ==
  /\ i \in DOMAIN handlers
  /\ handlers[i].pc = "call"
  /\ handlers' =
       [handlers EXCEPT ![i] =
          IF outcome = "ok" THEN [@ EXCEPT !.pc = "done", !.status = 200]
          ELSE IF outcome = "error"
          THEN [@ EXCEPT !.pc = "done", !.status = 500]
          ELSE IF auth_handle # <<>>
          THEN [@ EXCEPT !.pc = "auth"]
          ELSE [@ EXCEPT !.pc = "done", !.status = 400]]
  /\ UNCHANGED <<auth_guard, svcVars, guardFrame>>

\* todoapp::authenticate(handle, password) returns to handler i
HandlerAuthenticates(i, ok) ==
  /\ i \in DOMAIN handlers
  /\ handlers[i].pc = "auth"
  /\ handlers' =
       [handlers EXCEPT ![i] =
          IF ok
          THEN [@ EXCEPT !.pc = "install",
                         !.new_token = SessionPair(i).token]
          ELSE [@ EXCEPT !.pc = "done", !.status = 500]]
  /\ UNCHANGED <<auth_guard, svcVars, guardFrame>>

\* state.service_auth.write().await returns the write guard
WriteGuard(i) ==
  /\ i \in DOMAIN handlers
  /\ handlers[i].pc = "install"
  /\ CanWrite(auth_guard)
  /\ auth_guard' = [auth_guard EXCEPT !.writer = i, !.last = i]
  /\ handlers' = [handlers EXCEPT ![i].pc = "set_token"]
  /\ UNCHANGED <<svcVars, guardFrame>>

\* auth.token = Some(new_token.clone())
SetToken(i) ==
  /\ i \in DOMAIN handlers
  /\ handlers[i].pc = "set_token"
  /\ service_auth' = [service_auth EXCEPT !.token = handlers[i].new_token]
  /\ auth_guard' = [auth_guard EXCEPT !.token_by = i]
  /\ handlers' = [handlers EXCEPT ![i].pc = "set_did"]
  /\ UNCHANGED <<wall, cache, auth_handle, rq, cleaners, done, getLog,
                  guardFrame>>

\* auth.did = Some(new_did), and the write guard is dropped at the end of
\* the block
SetDid(i) ==
  /\ i \in DOMAIN handlers
  /\ handlers[i].pc = "set_did"
  /\ service_auth' = [service_auth EXCEPT !.did = SessionPair(i).did]
  /\ auth_guard' = [auth_guard EXCEPT !.did_by = i, !.writer = 0]
  /\ handlers' = [handlers EXCEPT ![i].pc = "retry"]
  /\ UNCHANGED <<wall, cache, auth_handle, rq, cleaners, done, getLog,
                  guardFrame>>

\* the retry with new_token answers
HandlerRetries(i, ok) ==
  /\ i \in DOMAIN handlers
  /\ handlers[i].pc = "retry"
  /\ handlers' = [handlers EXCEPT ![i].pc = "done",
                                  ![i].status = IF ok THEN 200 ELSE 500]
  /\ UNCHANGED <<auth_guard, svcVars, guardFrame>>

InitHandlers ==
  /\ OthersIdle
  /\ plMembers = EmptyBag
  /\ auth_handle = <<"h">>
  /\ service_auth = SessionPair(0)
  /\ wall = StartSecs
  /\ cache = {}
  /\ rq = NoRequest
  /\ cleaners = <<>>
  /\ done = <<>>
  /\ getLog = NoGet

NextHandlers ==
  \/ \E feed \in GuardedEndpoints : HandlerArrives(feed)
  \/ \E i \in 1..MaxHandlers : ReadGuard(i)
  \/ \E i \in 1..MaxHandlers : ReadHolder(i)
  \/ \E i \in 1..MaxHandlers, outcome \in FirstCalls : FirstAttempt(i, outcome)
  \/ \E i \in 1..MaxHandlers, ok \in BOOLEAN : HandlerAuthenticates(i, ok)
  \/ \E i \in 1..MaxHandlers : WriteGuard(i)
  \/ \E i \in 1..MaxHandlers : SetToken(i)
  \/ \E i \in 1..MaxHandlers : SetDid(i)
  \/ \E i \in 1..MaxHandlers, ok \in BOOLEAN : HandlerRetries(i, ok)

SpecHandlers == InitHandlers /\ [][NextHandlers]_vars

\* C40: under every interleaving of handlers that re-authenticate, whenever
\* no task holds the write guard the credential holder is the pair one
\* single re-authentication (or the login at startup) returned, token and
\* DID from the same one; every task that read under a read guard found
\* both fields from the same installation; and the pair in the holder is
\* that of the task that took the write guard last.
C40_PairInstalledTogether ==
  /\ auth_guard.writer = 0 =>
       /\ auth_guard.token_by = auth_guard.did_by
       /\ service_auth = SessionPair(auth_guard.token_by)
       /\ auth_guard.token_by = auth_guard.last
  /\ \A i \in DOMAIN handlers : handlers[i].saw[1] = handlers[i].saw[2]
  /\ \A i \in DOMAIN handlers :
       handlers[i].pc \in {"call", "auth"} =>
         \E k \in 0..MaxHandlers : handlers[i].token = SessionPair(k).token

\* three requests found the token expired and each re-authenticated on its
\* own: the first has installed its pair and answered, the second holds the
\* write guard between its two assignments (its token beside the DID the
\* first wrote), the third has its new pair and waits for the guard
C40_Witness ==
  /\ Len(handlers) = 3
  /\ \E i, j, k \in DOMAIN handlers :
       /\ handlers[i].pc = "done" /\ handlers[i].status = 200
       /\ IsSome(handlers[i].new_token)
       /\ handlers[j].pc = "set_did"
       /\ auth_guard.writer = j
       /\ auth_guard.token_by = j /\ auth_guard.did_by = i
       /\ handlers[k].pc = "install"
       /\ handlers[k].token = SessionPair(0).token
       /\ ~ENABLED WriteGuard(k)

====
